---- MODULE Spec2Model ----
(***************************************************************************)
(* Multi-store gateway (src/web-app.js): store registry, query expansion,  *)
(* aggregate product search with per-store deduplication and price sort,   *)
(* and the AI response dispatcher with its demo fallback.                  *)
(*                                                                         *)
(* JavaScript strings are sequences of one-character tokens.  Latin        *)
(* characters stand for themselves; a Hebrew letter is written as a        *)
(* two-letter token (Al = alef, Be = bet, ... Ta = tav, Mf/Nf/Kf/Pf/Tf =    *)
(* final forms).                                                           *)
(***************************************************************************)
EXTENDS Integers, Sequences, FiniteSets, TLC

(* ------------------------------ bounds -------------------------------- *)

\* Words per query in the query-expansion specification.
MaxWords == 3

\* Connect requests accepted in one behaviour (uuids minted for stores).
MaxConnects == 2

\* The same, in the specifications that also save AI configurations or
\* create orders.
MaxConnectsAI == 1

\* Products in one searchProducts answer.
MaxAnswer == 2

\* Orders created (tracking ids minted) in the order specification.
MaxOrders == 2

\* The same, in the specification of all requests.
MaxOrdersOps == 1

\* Characters of a credential in the AI-configuration specification.
MaxKeyLen == 5

\* Calls of checkAuthStatus in the chat widget.
MaxAuthCalls == 2

\* Requests the MCP server serves.
MaxMcpRequests == 2

\* Products of the store in one find_best_deals call.
MaxDeals == 3

\* Events of one streamed chat response.
MaxEvents == 2

\* Function calls in one answer of the Gemini model.
MaxToolCalls == 2

(* --------------------------- JS strings ------------------------------- *)

\* String.prototype.toLowerCase on one character: Hebrew has no case.
ToLowerChar(c) ==
  CASE c = "A" -> "a"
    [] c = "B" -> "b"
    [] c = "C" -> "c"
    [] c = "D" -> "d"
    [] c = "E" -> "e"
    [] c = "F" -> "f"
    [] c = "G" -> "g"
    [] c = "H" -> "h"
    [] c = "I" -> "i"
    [] c = "J" -> "j"
    [] c = "K" -> "k"
    [] c = "L" -> "l"
    [] c = "M" -> "m"
    [] c = "N" -> "n"
    [] c = "O" -> "o"
    [] c = "P" -> "p"
    [] c = "Q" -> "q"
    [] c = "R" -> "r"
    [] c = "S" -> "s"
    [] c = "T" -> "t"
    [] c = "U" -> "u"
    [] c = "V" -> "v"
    [] c = "W" -> "w"
    [] c = "X" -> "x"
    [] c = "Y" -> "y"
    [] c = "Z" -> "z"
    [] OTHER -> c

toLowerCase(s) == [i \in 1..Len(s) |-> ToLowerChar(s[i])]

\* String.prototype.includes
Includes(s, sub) ==
  \E i \in 0..(Len(s) - Len(sub)) : SubSeq(s, i + 1, i + Len(sub)) = sub

\* String(n) for a natural number n
RECURSIVE NumToString(_)
NumToString(n) ==
  LET digit == <<"0", "1", "2", "3", "4", "5", "6", "7", "8", "9">>
  IN  IF n < 10 THEN <<digit[n + 1]>>
      ELSE NumToString(n \div 10) \o <<digit[(n % 10) + 1]>>

(* -------------------------- query expansion --------------------------- *)

\* The Hebrew -> English table, in the object's key order.
translations ==
  <<
    [hebrew  |-> <<"Be", "Gi", "Da", "Yo", " ", "Yo", "La", "Da", "Yo", "Mf">>,
     english |-> <<"c", "h", "i", "l", "d", "r", "e", "n", " ", "b", "a", "b", "y", " ", "k", "i", "d", "s", " ", "c", "l", "o", "t", "h", "e", "s">>],
    [hebrew  |-> <<"Yo", "La", "Da", "Yo", "Mf">>,
     english |-> <<"c", "h", "i", "l", "d", "r", "e", "n", " ", "b", "a", "b", "y", " ", "k", "i", "d", "s">>],
    [hebrew  |-> <<"Ta", "Yo", "Nu", "Va", "Qo">>,
     english |-> <<"b", "a", "b", "y">>],
    [hebrew  |-> <<"Re", "Ka", "Be">>,
     english |-> <<"c", "a", "r", " ", "a", "u", "t", "o", "m", "o", "t", "i", "v", "e">>],
    [hebrew  |-> <<"Me", "Ka", "Va", "Nu", "Yo", "Ta">>,
     english |-> <<"c", "a", "r">>],
    [hebrew  |-> <<"Sa", "Pe", "Re", "Yo", "Mf">>,
     english |-> <<"b", "o", "o", "k", " ", "e", "n", "c", "y", "c", "l", "o", "p", "e", "d", "i", "a">>],
    [hebrew  |-> <<"Me", "Va", "Ts", "Re", "Yo", " ", "Re", "Ka", "Be">>,
     english |-> <<"c", "a", "r", " ", "a", "u", "t", "o", "m", "o", "t", "i", "v", "e">>],
    [hebrew  |-> <<"Be", "Gi", "Da", "Yo", "Mf">>,
     english |-> <<"c", "l", "o", "t", "h", "e", "s", " ", "s", "h", "i", "r", "t", " ", "p", "a", "n", "t", "s">>],
    [hebrew  |-> <<"Ch", "Va", "La", "Ts", "He">>,
     english |-> <<"s", "h", "i", "r", "t">>],
    [hebrew  |-> <<"Me", "Ka", "Nu", "Sa", "Yo", "Yo", "Mf">>,
     english |-> <<"p", "a", "n", "t", "s">>],
    [hebrew  |-> <<"Nu", "Ay", "La", "Yo", "Yo", "Mf">>,
     english |-> <<"s", "h", "o", "e", "s">>],
    [hebrew  |-> <<"Al", "Va", "Za", "Nu", "Yo", "Va", "Ta">>,
     english |-> <<"h", "e", "a", "d", "p", "h", "o", "n", "e", "s">>],
    [hebrew  |-> <<"Te", "La", "Pe", "Va", "Nf">>,
     english |-> <<"p", "h", "o", "n", "e">>],
    [hebrew  |-> <<"Me", "Ch", "Sh", "Be">>,
     english |-> <<"c", "o", "m", "p", "u", "t", "e", "r", " ", "l", "a", "p", "t", "o", "p">>],
    [hebrew  |-> <<"Te", "La", "Va", "Va", "Yo", "Za", "Yo", "He">>,
     english |-> <<"t", "v", " ", "t", "e", "l", "e", "v", "i", "s", "i", "o", "n">>]
  >>

translateSearchQuery_lowered(query) ==
  LET lower   == toLowerCase(query)
      matched == SelectSeq(translations,
                   LAMBDA t : Includes(lower, toLowerCase(t.hebrew)))
  IN  <<lower>> \o [i \in 1..Len(matched) |-> matched[i].english]

\* searchTerms = [query], then one push per matching key, in key order.
translateSearchQuery(query) ==
  LET lower   == toLowerCase(query)
      matched == SelectSeq(translations,
                   LAMBDA t : Includes(lower, toLowerCase(t.hebrew)))
  IN  <<query>> \o [i \in 1..Len(matched) |-> matched[i].english]

(* ----------------------------- queries -------------------------------- *)

w_yeladim == <<"Yo", "La", "Da", "Yo", "Mf">>
w_bigdey == <<"Be", "Gi", "Da", "Yo">>
w_rekhev == <<"Re", "Ka", "Be">>
w_mutzrey == <<"Me", "Va", "Ts", "Re", "Yo">>
w_telefon == <<"Te", "La", "Pe", "Va", "Nf">>
w_Laptop == <<"L", "a", "p", "t", "o", "p">>

Words == {w_yeladim, w_bigdey, w_rekhev, w_mutzrey, w_telefon, w_Laptop}

RECURSIVE JoinWords(_)
JoinWords(ws) ==
  IF Len(ws) = 0 THEN <<>>
  ELSE IF Len(ws) = 1 THEN ws[1]
  ELSE ws[1] \o <<" ">> \o JoinWords(Tail(ws))

\* Queries of the expansion specification: up to MaxWords words, one space
\* between two words; the empty query is the join of no word.
ExpandQueries ==
  {JoinWords(ws) : ws \in UNION {[1..n -> Words] : n \in 0..MaxWords}}

\* Queries of the search requests: one dictionary match, and an upper-case
\* word with none.
SearchQueries == {w_telefon, w_Laptop}

(* ----------------------------- JS values ------------------------------ *)

\* A value that is undefined, null or a string (p.variants[0]?.price, the
\* result of generateAIResponse).
Undefined == [t |-> "undefined", s |-> <<>>]
Null == [t |-> "null", s |-> <<>>]
Str(s) == [t |-> "string", s |-> s]

Digits == {"0", "1", "2", "3", "4", "5", "6", "7", "8", "9"}

DigitValue(c) ==
  CASE c = "0" -> 0 [] c = "1" -> 1 [] c = "2" -> 2 [] c = "3" -> 3
    [] c = "4" -> 4 [] c = "5" -> 5 [] c = "6" -> 6 [] c = "7" -> 7
    [] c = "8" -> 8 [] c = "9" -> 9

NaN == [nan |-> TRUE, v |-> 0]
Num(n) == [nan |-> FALSE, v |-> n]

RECURSIVE LeadingDigits(_, _)
LeadingDigits(s, acc) ==
  IF Len(s) > 0 /\ Head(s) \in Digits
  THEN LeadingDigits(Tail(s), 10 * acc + DigitValue(Head(s)))
  ELSE acc

\* parseFloat on a string of the model (unsigned, no fraction): the value of
\* the leading digits, NaN when the string does not start with a digit.
parseFloat(s) ==
  IF Len(s) > 0 /\ Head(s) \in Digits THEN Num(LeadingDigits(s, 0)) ELSE NaN

\* price || '0'
PriceOrZero(price) ==
  IF price.t # "string" \/ price.s = <<>> THEN <<"0">> ELSE price.s

\* The comparator of the sort: parseFloat(a.price || '0') -
\* parseFloat(b.price || '0'); NaN when either operand is NaN.
comparePrice(a, b) ==
  LET x == parseFloat(PriceOrZero(a.price))
      y == parseFloat(PriceOrZero(b.price))
  IN  IF x.nan \/ y.nan THEN NaN ELSE Num(x.v - y.v)

(* ---------------- Array.prototype.sort (V8, length < 64) -------------- *)

\* The engine calls the comparator and reads a NaN result as 0.
CallCompare(a, b) ==
  LET v == comparePrice(a, b) IN IF v.nan THEN 0 ELSE v.v

Reverse(s) == [i \in 1..Len(s) |-> s[Len(s) + 1 - i]]

\* Last index of the run that starts at index 1 and already reaches idx.
RECURSIVE RunEnd(_, _, _)
RunEnd(arr, idx, isDescending) ==
  IF idx = Len(arr) THEN idx
  ELSE LET order == CallCompare(arr[idx + 1], arr[idx])
       IN  IF (isDescending /\ order >= 0) \/ (~isDescending /\ order < 0)
           THEN idx
           ELSE RunEnd(arr, idx + 1, isDescending)

\* The initial run (strictly descending runs are reversed in place).
CountAndMakeRun(arr) ==
  IF Len(arr) < 2 THEN [runLength |-> Len(arr), arr |-> arr]
  ELSE LET isDescending == CallCompare(arr[2], arr[1]) < 0
           runLength    == RunEnd(arr, 2, isDescending)
       IN  [runLength |-> runLength,
            arr |-> IF isDescending
                    THEN Reverse(SubSeq(arr, 1, runLength))
                           \o SubSeq(arr, runLength + 1, Len(arr))
                    ELSE arr]

\* Insertion point of pivot in arr[left .. right-1].
RECURSIVE BinarySearch(_, _, _, _)
BinarySearch(arr, pivot, left, right) ==
  IF left < right
  THEN LET mid == left + ((right - left) \div 2)
       IN  IF CallCompare(pivot, arr[mid]) < 0
           THEN BinarySearch(arr, pivot, left, mid)
           ELSE BinarySearch(arr, pivot, mid + 1, right)
  ELSE left

\* Inserts arr[start], arr[start+1], ... into the sorted prefix before them.
RECURSIVE BinaryInsertionSort(_, _)
BinaryInsertionSort(arr, start) ==
  IF start > Len(arr) THEN arr
  ELSE LET pivot == arr[start]
           left  == BinarySearch(arr, pivot, 1, start)
           moved == SubSeq(arr, 1, left - 1) \o <<pivot>>
                      \o SubSeq(arr, left, start - 1)
                      \o SubSeq(arr, start + 1, Len(arr))
       IN  BinaryInsertionSort(moved, start + 1)

\* allResults.sort((a, b) => parseFloat(a.price || '0') - parseFloat(b.price || '0'))
SortByPrice(arr) ==
  IF Len(arr) < 2 THEN arr
  ELSE LET run == CountAndMakeRun(arr)
       IN  BinaryInsertionSort(run.arr, run.runLength + 1)

(* ------------------------ demo AI response ---------------------------- *)

kw_laptop_he == <<"La", "Pe", "Te", "Va", "Pe">>
kw_laptop == <<"l", "a", "p", "t", "o", "p">>
kw_phone_he == <<"Te", "La", "Pe", "Va", "Nf">>
kw_phone == <<"p", "h", "o", "n", "e">>
kw_smartphone_he == <<"Sa", "Me", "Al", "Re", "Te", "Pe", "Va", "Nf">>
kw_child_he == <<"Yo", "La", "Da">>
kw_children == <<"c", "h", "i", "l", "d", "r", "e", "n">>
kw_baby_he == <<"Be", "Yo", "Yo", "Be", "Yo">>
kw_gaming_he == <<"Gi", "Yo", "Yo", "Me", "Yo", "Nu", "Gi">>
kw_gaming == <<"g", "a", "m", "i", "n", "g">>
kw_ozney_he == <<"Al", "Va", "Za", "Nu", "Yo">>

\* Math.min(...xs) / Math.max(...xs) of the parsed prices, as printed in a
\* template literal.
RECURSIVE MinOf(_)
MinOf(xs) ==
  IF Len(xs) = 1 THEN xs[1]
  ELSE LET m == MinOf(Tail(xs)) IN IF xs[1] < m THEN xs[1] ELSE m

RECURSIVE MaxOf(_)
MaxOf(xs) ==
  IF Len(xs) = 1 THEN xs[1]
  ELSE LET m == MaxOf(Tail(xs)) IN IF xs[1] > m THEN xs[1] ELSE m

ParsedPrices(products) ==
  [i \in 1..Len(products) |-> parseFloat(PriceOrZero(products[i].price))]

MinPriceText(products) ==
  LET ps == ParsedPrices(products)
  IN  IF Len(ps) = 0 THEN <<"Infinity">>
      ELSE IF \E i \in 1..Len(ps) : ps[i].nan THEN <<"NaN">>
      ELSE NumToString(MinOf([i \in 1..Len(ps) |-> ps[i].v]))

MaxPriceText(products) ==
  LET ps == ParsedPrices(products)
  IN  IF Len(ps) = 0 THEN <<"-Infinity">>
      ELSE IF \E i \in 1..Len(ps) : ps[i].nan THEN <<"NaN">>
      ELSE NumToString(MaxOf([i \in 1..Len(ps) |-> ps[i].v]))

DemoClass_phoneFirst(query) ==
  LET lowerQuery == toLowerCase(query)
  IN  IF \/ Includes(lowerQuery, kw_phone_he)
         \/ Includes(lowerQuery, kw_phone)
         \/ Includes(lowerQuery, kw_smartphone_he)
      THEN "phone"
      ELSE IF Includes(lowerQuery, kw_laptop_he) \/ Includes(lowerQuery, kw_laptop)
      THEN "laptop"
      ELSE IF \/ Includes(lowerQuery, kw_child_he)
              \/ Includes(lowerQuery, kw_children)
              \/ Includes(lowerQuery, kw_baby_he)
      THEN "children"
      ELSE IF \/ Includes(lowerQuery, kw_gaming_he)
              \/ Includes(lowerQuery, kw_gaming)
              \/ Includes(lowerQuery, kw_ozney_he)
      THEN "gaming"
      ELSE "default"

\* The class of the query: the first matching branch of the if-chain.
DemoClass(query) ==
  LET lowerQuery == toLowerCase(query)
  IN  IF Includes(lowerQuery, kw_laptop_he) \/ Includes(lowerQuery, kw_laptop)
      THEN "laptop"
      ELSE IF \/ Includes(lowerQuery, kw_phone_he)
              \/ Includes(lowerQuery, kw_phone)
              \/ Includes(lowerQuery, kw_smartphone_he)
      THEN "phone"
      ELSE IF \/ Includes(lowerQuery, kw_child_he)
              \/ Includes(lowerQuery, kw_children)
              \/ Includes(lowerQuery, kw_baby_he)
      THEN "children"
      ELSE IF \/ Includes(lowerQuery, kw_gaming_he)
              \/ Includes(lowerQuery, kw_gaming)
              \/ Includes(lowerQuery, kw_ozney_he)
      THEN "gaming"
      ELSE "default"

\* The text of each template literal: its fixed fragments are one token
\* each, the interpolated numbers are printed digit by digit.
generateDemoAIResponse(query, products, totalStores) ==
  LET productCount == NumToString(Len(products))
      storeCount   == NumToString(IF totalStores = 0 THEN 1 ELSE totalStores)
      class        == DemoClass(query)
  IN  CASE class = "laptop" ->
             <<"[laptop-1]">> \o productCount \o <<"[laptop-2]">>
               \o MinPriceText(products) \o <<"[laptop-3]">>
               \o MaxPriceText(products) \o <<"[laptop-4]">>
        [] class = "phone" ->
             <<"[phone-1]">> \o productCount \o <<"[phone-2]">>
        [] class = "children" ->
             <<"[children-1]">> \o productCount \o <<"[children-2]">>
               \o storeCount \o <<"[children-3]">>
        [] class = "gaming" ->
             <<"[gaming-1]">> \o productCount \o <<"[gaming-2]">>
        [] OTHER ->
             <<"[default-1]">> \o productCount \o <<"[default-2]">>
               \o storeCount \o <<"[default-3]">>

(* --------------------------- AI dispatcher ---------------------------- *)

AIProviders ==
  {"anthropic", "openai", "gemini-free", "huggingface", "ollama", "deepseek"}

\* A credential and the default Ollama URL, character by character.
SecretKey == <<"s", "k", "-", "1", "2", "3", "4">>
DefaultOllamaUrl == <<"h", "t", "t", "p", ":", "/", "/", "l", "o", "c", "a", "l">>

\* aiConfig as the module is loaded, with no key in the environment.
InitialAIConfig ==
  [provider       |-> "none",
   model          |-> "claude-3-sonnet-20240229",
   anthropicKey   |-> <<>>,
   openaiKey      |-> <<>>,
   geminiFreeKey  |-> <<>>,
   huggingfaceKey |-> <<>>,
   ollamaUrl      |-> DefaultOllamaUrl,
   deepseekKey    |-> <<>>]

\* The switch on aiConfig.provider; null is written as the empty string,
\* which the test !currentApiKey treats alike.
CurrentApiKey(cfg) ==
  CASE cfg.provider = "anthropic"   -> cfg.anthropicKey
    [] cfg.provider = "openai"      -> cfg.openaiKey
    [] cfg.provider = "gemini-free" -> cfg.geminiFreeKey
    [] cfg.provider = "huggingface" -> cfg.huggingfaceKey
    [] cfg.provider = "ollama"      -> cfg.ollamaUrl
    [] cfg.provider = "deepseek"    -> cfg.deepseekKey
    [] OTHER                        -> <<>>

IsDemoMode_providerOnly(provider, currentApiKey) ==
  provider = "none"

\* !currentApiKey || aiConfig.provider === 'none'
IsDemoMode(provider, currentApiKey) ==
  currentApiKey = <<>> \/ provider = "none"

\* What the provider's server does with one request.
AIReplies == {"throw", "malformed", "text", "empty"}

AIText == <<"O", "K">>

\* The value generateAIResponse returns for a reply of the provider called:
\* the field read from response.data, or null from the catch block.
ExtractAIText(provider, reply) ==
  IF reply = "throw" THEN Null
  ELSE IF provider = "ollama"
  THEN CASE reply = "text"  -> Str(AIText)
         [] reply = "empty" -> Str(<<>>)
         [] OTHER           -> Undefined
  ELSE IF provider = "huggingface"
  THEN CASE reply = "text" -> Str(AIText)
         [] OTHER          -> Null
  ELSE CASE reply = "text"  -> Str(AIText)
         [] reply = "empty" -> Str(<<>>)
         [] OTHER           -> Null

\* startsWith('***')
IsMasked(s) == Len(s) >= 3 /\ SubSeq(s, 1, 3) = <<"*", "*", "*">>

SavedAIConfig_maskIgnored(cfg, body) ==
  [provider       |-> IF body.provider # "" THEN body.provider ELSE cfg.provider,
   model          |-> IF body.model # "" THEN body.model ELSE cfg.model,
   anthropicKey   |-> IF body.anthropicKey # <<>>
                      THEN body.anthropicKey ELSE cfg.anthropicKey,
   openaiKey      |-> IF body.openaiKey # <<>>
                      THEN body.openaiKey ELSE cfg.openaiKey,
   geminiFreeKey  |-> IF body.geminiFreeKey # <<>>
                      THEN body.geminiFreeKey ELSE cfg.geminiFreeKey,
   huggingfaceKey |-> IF body.huggingfaceKey # <<>>
                      THEN body.huggingfaceKey ELSE cfg.huggingfaceKey,
   ollamaUrl      |-> IF body.ollamaUrl # <<>> THEN body.ollamaUrl ELSE cfg.ollamaUrl,
   deepseekKey    |-> IF body.deepseekKey # <<>>
                      THEN body.deepseekKey ELSE cfg.deepseekKey]

\* The body of POST /api/ai/config applied to aiConfig; an absent field and
\* an empty one are both falsy and written as the empty string.
SavedAIConfig(cfg, body) ==
  [provider       |-> IF body.provider # "" THEN body.provider ELSE cfg.provider,
   model          |-> IF body.model # "" THEN body.model ELSE cfg.model,
   anthropicKey   |-> IF body.anthropicKey # <<>> /\ ~IsMasked(body.anthropicKey)
                      THEN body.anthropicKey ELSE cfg.anthropicKey,
   openaiKey      |-> IF body.openaiKey # <<>> /\ ~IsMasked(body.openaiKey)
                      THEN body.openaiKey ELSE cfg.openaiKey,
   geminiFreeKey  |-> IF body.geminiFreeKey # <<>> /\ ~IsMasked(body.geminiFreeKey)
                      THEN body.geminiFreeKey ELSE cfg.geminiFreeKey,
   huggingfaceKey |-> IF body.huggingfaceKey # <<>> /\ ~IsMasked(body.huggingfaceKey)
                      THEN body.huggingfaceKey ELSE cfg.huggingfaceKey,
   ollamaUrl      |-> IF body.ollamaUrl # <<>> THEN body.ollamaUrl ELSE cfg.ollamaUrl,
   deepseekKey    |-> IF body.deepseekKey # <<>> /\ ~IsMasked(body.deepseekKey)
                      THEN body.deepseekKey ELSE cfg.deepseekKey]

EmptyBody ==
  [provider |-> "", model |-> "", anthropicKey |-> <<>>, openaiKey |-> <<>>,
   geminiFreeKey |-> <<>>, huggingfaceKey |-> <<>>, ollamaUrl |-> <<>>,
   deepseekKey |-> <<>>]

\* Request bodies of the save-configuration requests.
SaveBodies ==
  {[EmptyBody EXCEPT !.provider = "anthropic", !.anthropicKey = SecretKey],
   [EmptyBody EXCEPT !.provider = "huggingface"],
   [EmptyBody EXCEPT !.provider = "ollama"],
   [EmptyBody EXCEPT !.provider = "none"]}

(* ------------------------------ stores -------------------------------- *)

StoreUrls == {"shop-a", "shop-b"}

\* The products a shop holds, as searchProducts reports them: the id and
\* the price of the first variant.
Catalog(url) ==
  IF url = "shop-a"
  THEN << [id |-> 1, price |-> Str(<<"5", "0">>)],
          [id |-> 2, price |-> Str(<<"1", "0">>)] >>
  ELSE << [id |-> 1, price |-> Str(<<"a", "b", "c">>)],
          [id |-> 2, price |-> Undefined] >>

\* The elements of s at the indices in keep, in the order of s.
Pick(s, keep) ==
  LET F[i \in 0..Len(s)] ==
        IF i = 0 THEN <<>>
        ELSE IF i \in keep THEN Append(F[i - 1], s[i]) ELSE F[i - 1]
  IN  F[Len(s)]

\* The product lists one searchProducts call can resolve with.
SearchAnswers(url) ==
  {Pick(Catalog(url), keep) :
     keep \in {k \in SUBSET (1..Len(Catalog(url))) : Cardinality(k) <= MaxAnswer}}

AllAnswers == UNION {SearchAnswers(url) : url \in StoreUrls}

NoStore == [id |-> 0, name |-> "", url |-> "", token |-> ""]

NoResponse ==
  [status |-> 0, mode |-> "", totalStores |-> 0, products |-> <<>>,
   aiResponse |-> Undefined]

\* generateAIResponse not called yet; config is aiConfig as the call finds it.
NoAI == [called |-> FALSE, config |-> InitialAIConfig, currentApiKey |-> <<>>,
         endpoint |-> "", calls |-> 0, reply |-> ""]

\* No /api/orders/create request in flight, no response of it, and no pay or
\* status response.
NoOrderReq == [productId |-> 0, storeId |-> 0, quantity |-> 0]
NoOrderRes == [status |-> 0, error |-> "", trackingId |-> 0]
NoPayRes ==
  [op |-> "", trackingId |-> 0, was |-> "", status |-> 0, order |-> Undefined]

\* No response of a registry or AI request, and no list-stores answer that
\* still tells the registry.
NoApiRes == [op |-> "", status |-> 0, body |-> Undefined]
NoList == [valid |-> FALSE, body |-> Undefined]

\* The MCP server before the module is loaded, with no request in flight.
NoMcpRes ==
  [kind |-> "", code |-> "", message |-> "", tools |-> {}, deals |-> <<>>]
NoMcp ==
  [loaded |-> FALSE, STORE_URL |-> "", ACCESS_TOKEN |-> "",
   shopifyClient |-> "null", pc |-> "idle", method |-> "", name |-> "",
   clientCalls |-> <<>>, served |-> 0, res |-> NoMcpRes]

\* A checkAuthStatus call that has not been made, and the widget with none.
\* final: the last answer was authorized, or neither authorized nor pending.
NoPoll ==
  [pc |-> "idle", attemptCount |-> 0, fetches |-> 0, messages |-> 0,
   final |-> FALSE]
NoAuth == [c \in 1..MaxAuthCalls |-> NoPoll]

\* handleStreamingResponse not called: no event sent, no byte to read, the
\* locals assistantMessage and currentProducts, and what the UI displays.
NoStream ==
  [pc |-> "idle", events |-> <<>>, rest |-> <<>>, assistantMessage |-> <<>>,
   currentProducts |-> <<>>, displayed |-> <<>>]

\* streamConversation not called.
NoGemini ==
  [pc |-> "idle", handlers |-> {}, error |-> "", calls |-> <<>>, block |-> 0,
   finalMessage |-> [role |-> "", content |-> <<>>, stop_reason |-> ""]]

(* ------------------------------- state -------------------------------- *)

VARIABLES
  storeConnections,  \* the registry Map, as its entries in insertion order
  uuids,             \* store ids minted by uuidv4 so far
  aiConfig,          \* the process-wide AI configuration
  pc,                \* where the /api/chat/search handler in flight stands
  req,               \* its request body: query, storeId (0: none given)
  searchTerms,       \* translateSearchQuery(query)
  it,                \* entries the Map iterator of the for-of loop has passed
  store,             \* the entry the loop body (or the single search) holds
  termIdx,           \* index in searchTerms of the call awaited
  seenProducts,      \* ids pushed for the current store
  allResults,        \* products collected so far
  callLog,           \* searchProducts calls of this request and their outcome
  ai,                \* generateAIResponse: key picked, call sent, reply
  res,               \* the response sent
  orderTracker,      \* the tracker Map: tracking id -> order record
  orderUuids,        \* tracking ids minted by uuidv4 so far
  orderPc,           \* where the /api/orders/create handler in flight stands
  orderReq,          \* its request body: productId, storeId, quantity
  orderStore,        \* the registry entry it holds
  variantId,         \* the id of the first variant of the product found
  orderCalls,        \* its calls to the store's client, in call order
  orderRes,          \* the response it sent
  payRes,            \* the response of the pay or status request served
  apiRes,            \* the response of the registry or AI request served
  lastList,          \* the last list-stores answer, if the registry is as then
  mcp,               \* the MCP server process (index.ts)
  auth,              \* the checkAuthStatus calls of the chat widget
  stream,            \* the handleStreamingResponse call of the chat widget
  gemini             \* the streamConversation call of the Gemini service

vars == <<storeConnections, uuids, aiConfig, pc, req, searchTerms, it, store,
          termIdx, seenProducts, allResults, callLog, ai, res, orderTracker,
          orderUuids, orderPc, orderReq, orderStore, variantId, orderCalls,
          orderRes, payRes, apiRes, lastList, mcp, auth, stream, gemini>>

registryVars == <<storeConnections, uuids>>
loopVars == <<it, store, termIdx, seenProducts, allResults>>
searchVars == <<pc, req, searchTerms, loopVars, callLog, ai, res>>
orderHandlerVars ==
  <<orderPc, orderReq, orderStore, variantId, orderCalls, orderRes>>
orderVars == <<orderTracker, orderUuids, orderHandlerVars, payRes>>
apiVars == <<apiRes, lastList>>
peerVars == <<mcp, auth, stream, gemini>>
webVars == <<registryVars, aiConfig, searchVars, orderVars, apiVars>>

Init ==
  /\ storeConnections = <<>>
  /\ uuids = 0
  /\ aiConfig = InitialAIConfig
  /\ pc = "idle"
  /\ req = [query |-> <<>>, storeId |-> 0]
  /\ searchTerms = <<>>
  /\ it = 0
  /\ store = NoStore
  /\ termIdx = 0
  /\ seenProducts = {}
  /\ allResults = <<>>
  /\ callLog = <<>>
  /\ ai = NoAI
  /\ res = NoResponse
  /\ orderTracker = <<>>
  /\ orderUuids = 0
  /\ orderPc = "idle"
  /\ orderReq = NoOrderReq
  /\ orderStore = NoStore
  /\ variantId = 0
  /\ orderCalls = <<>>
  /\ orderRes = NoOrderRes
  /\ payRes = NoPayRes
  /\ apiRes = NoApiRes
  /\ lastList = NoList
  /\ mcp = NoMcp
  /\ auth = NoAuth
  /\ stream = NoStream
  /\ gemini = NoGemini

(* ------------------------------ registry ------------------------------ *)

\* storeConnections.get(storeId)
HasStore(id) == \E i \in 1..Len(storeConnections) : storeConnections[i].id = id
GetStore(id) ==
  storeConnections[CHOOSE i \in 1..Len(storeConnections) :
                     storeConnections[i].id = id]

\* res.json ends a handler: no other request is served between a response
\* and the return of the handler that sent it.
NoResponseInHand ==
  /\ pc # "responded"
  /\ orderPc # "responded"
  /\ payRes = NoPayRes
  /\ apiRes = NoApiRes

\* What a store listing shows of one entry, and of the registry:
\* Array.from(storeConnections.values()).map(s => ({ id, name, url, ... })).
StoreView(s) == [id |-> s.id, name |-> s.name, url |-> s.url]
StoreList(entries) == [i \in 1..Len(entries) |-> StoreView(entries[i])]

Registered_sameUrlOnce(storeName, storeUrl) ==
  IF \E i \in 1..Len(storeConnections) : storeConnections[i].url = storeUrl
  THEN storeConnections
  ELSE Append(storeConnections,
              [id |-> uuids + 1, name |-> storeName, url |-> storeUrl,
               token |-> "shpat"])

\* The registry after storeConnections.set under an id just minted.
Registered(storeName, storeUrl) ==
  Append(storeConnections,
         [id |-> uuids + 1, name |-> storeName, url |-> storeUrl,
          token |-> "shpat"])

ConnectBody_withTokens(entries) ==
  [success |-> TRUE, storeId |-> uuids + 1, stores |-> entries]

\* The body of the answer of /api/stores/connect.
ConnectBody(entries) ==
  [success |-> TRUE, storeId |-> uuids + 1, stores |-> StoreList(entries)]

Connect_validating(storeUrl) ==
  /\ NoResponseInHand
  /\ uuids' = uuids + 1
  /\ \E validated \in BOOLEAN :
       IF validated
       THEN /\ storeConnections' = Registered("Shop", storeUrl)
            /\ apiRes' = [op |-> "connect", status |-> 200,
                          validated |-> validated,
                          body |-> ConnectBody(storeConnections')]
       ELSE /\ storeConnections' = storeConnections
            /\ apiRes' = [op |-> "connect", status |-> 400,
                          validated |-> validated, body |-> Undefined]
  /\ lastList' = NoList
  /\ UNCHANGED <<aiConfig, pc, req, searchTerms, loopVars, callLog, ai, res>>
  /\ UNCHANGED <<orderVars, peerVars>>

\* POST /api/stores/connect: the validation call resolves or rejects
\* (validated), the entry is set under a fresh uuid either way and the
\* answer lists the registry.
Connect(storeUrl) ==
  /\ NoResponseInHand
  /\ uuids' = uuids + 1
  /\ storeConnections' = Registered("Shop", storeUrl)
  /\ \E validated \in BOOLEAN :
       apiRes' = [op |-> "connect", status |-> 200, validated |-> validated,
                  body |-> ConnectBody(storeConnections')]
  /\ lastList' = NoList
  /\ UNCHANGED <<aiConfig, pc, req, searchTerms, loopVars, callLog, ai, res>>
  /\ UNCHANGED <<orderVars, peerVars>>

\* POST /api/connect, the legacy endpoint: the same, under the name
\* 'Legacy Connection' and with an answer that lists no store.
LegacyConnect(storeUrl) ==
  /\ NoResponseInHand
  /\ uuids' = uuids + 1
  /\ storeConnections' = Registered("Legacy Connection", storeUrl)
  /\ \E validated \in BOOLEAN :
       apiRes' = [op |-> "connect", status |-> 200, validated |-> validated,
                  body |-> [success |-> TRUE, storeId |-> uuids + 1,
                            stores |-> <<>>]]
  /\ lastList' = NoList
  /\ UNCHANGED <<aiConfig, pc, req, searchTerms, loopVars, callLog, ai, res>>
  /\ UNCHANGED <<orderVars, peerVars>>

ListStores_stamped ==
  /\ NoResponseInHand
  /\ \E ms \in {1, 2} :
       apiRes' = [op |-> "stores", status |-> 200, again |-> lastList.valid,
                  body |-> [stores |-> StoreList(storeConnections),
                            lastConnected |-> ms]]
  /\ lastList' = [valid |-> TRUE, body |-> apiRes'.body]
  /\ UNCHANGED <<registryVars, aiConfig, searchVars, orderVars, peerVars>>

\* GET /api/stores (again: an earlier answer still tells the registry).
ListStores ==
  /\ NoResponseInHand
  /\ apiRes' = [op |-> "stores", status |-> 200, again |-> lastList.valid,
                body |-> [stores |-> StoreList(storeConnections)]]
  /\ lastList' = [valid |-> TRUE, body |-> apiRes'.body]
  /\ UNCHANGED <<registryVars, aiConfig, searchVars, orderVars, peerVars>>

\* The handler of a registry or AI request returns after its response.
FinishApi ==
  /\ apiRes # NoApiRes
  /\ apiRes' = NoApiRes
  /\ UNCHANGED <<registryVars, aiConfig, searchVars, orderVars, lastList,
                 peerVars>>

DisconnectAll_dropOrders ==
  /\ NoResponseInHand
  /\ storeConnections # <<>>
  /\ storeConnections' = <<>>
  /\ it' = 0
  /\ orderTracker' = <<>>
  /\ UNCHANGED <<uuids, aiConfig, pc, req, searchTerms, store, termIdx,
                 seenProducts, allResults, callLog, ai, res, orderUuids,
                 orderHandlerVars, payRes>>
  /\ lastList' = NoList
  /\ UNCHANGED <<apiRes, peerVars>>

\* POST /api/disconnect: storeConnections.clear().  A Map iterator in use
\* moves to the cleared table and restarts at its first entry.  (The answer
\* is a constant and is not kept.)
DisconnectAll ==
  /\ NoResponseInHand
  /\ storeConnections # <<>>
  /\ storeConnections' = <<>>
  /\ it' = 0
  /\ lastList' = NoList
  /\ UNCHANGED <<uuids, aiConfig, pc, req, searchTerms, store, termIdx,
                 seenProducts, allResults, callLog, ai, res>>
  /\ UNCHANGED <<orderVars, apiRes, peerVars>>

\* POST /api/ai/config: the answer shows the provider and the model.
SaveAIConfig(body) ==
  /\ NoResponseInHand
  /\ aiConfig' = SavedAIConfig(aiConfig, body)
  /\ aiConfig' # aiConfig
  /\ apiRes' = [op |-> "save", status |-> 200,
                body |-> [provider |-> aiConfig'.provider,
                          model |-> aiConfig'.model]]
  /\ UNCHANGED <<registryVars, pc, req, searchTerms, loopVars, callLog, ai, res>>
  /\ UNCHANGED <<orderVars, lastList, peerVars>>

\* s.slice(-n): the last n characters, the whole string when it is shorter.
SliceLast(s, n) ==
  IF Len(s) <= n THEN s ELSE SubSeq(s, Len(s) - n + 1, Len(s))

\* key ? '***' + key.slice(-4) : ''
MaskedKey(key) ==
  IF key = <<>> THEN <<>> ELSE <<"*", "*", "*">> \o SliceLast(key, 4)

\* The body of the answer of GET /api/ai/config.
MaskedConfig(cfg) ==
  [provider       |-> cfg.provider,
   model          |-> cfg.model,
   anthropicKey   |-> MaskedKey(cfg.anthropicKey),
   openaiKey      |-> MaskedKey(cfg.openaiKey),
   geminiFreeKey  |-> MaskedKey(cfg.geminiFreeKey),
   huggingfaceKey |-> MaskedKey(cfg.huggingfaceKey),
   ollamaUrl      |-> cfg.ollamaUrl,
   deepseekKey    |-> MaskedKey(cfg.deepseekKey)]

\* GET /api/ai/config
GetAIConfig ==
  /\ NoResponseInHand
  /\ apiRes' = [op |-> "config", status |-> 200,
                body |-> MaskedConfig(aiConfig)]
  /\ UNCHANGED <<registryVars, aiConfig, searchVars, orderVars, lastList,
                 peerVars>>

\* The client posts the configuration it has just read back as it is:
\* POST /api/ai/config with the body of the GET response.
PostBackAIConfig ==
  /\ apiRes.op = "config"
  /\ aiConfig' = SavedAIConfig(aiConfig, apiRes.body)
  /\ apiRes' = [op |-> "postback", status |-> 200, was |-> aiConfig,
                body |-> [provider |-> aiConfig'.provider,
                          model |-> aiConfig'.model]]
  /\ UNCHANGED <<registryVars, searchVars, orderVars, lastList, peerVars>>

\* true and false, and a && b, a || b on values (a string is falsy when
\* empty).
JSTrue == [t |-> "boolean", s |-> <<>>, b |-> TRUE]
JSFalse == [t |-> "boolean", s |-> <<>>, b |-> FALSE]
Bool(b) == IF b THEN JSTrue ELSE JSFalse
Truthy(v) ==
  CASE v.t = "boolean" -> v.b
    [] v.t = "string"  -> v.s # <<>>
    [] OTHER           -> FALSE
And(a, b) == IF Truthy(a) THEN b ELSE a
Or(a, b) == IF Truthy(a) THEN a ELSE b

\* hasApiKey of GET /api/ai/status: the value of the chain of && and ||.
HasApiKey(cfg) ==
  Or(And(Bool(cfg.provider = "anthropic"), Str(cfg.anthropicKey)),
  Or(And(Bool(cfg.provider = "openai"), Str(cfg.openaiKey)),
  Or(And(Bool(cfg.provider = "gemini-free"), Str(cfg.geminiFreeKey)),
  Or(And(Bool(cfg.provider = "huggingface"), Str(cfg.huggingfaceKey)),
  Or(And(Bool(cfg.provider = "ollama"), Str(cfg.ollamaUrl)),
  Or(And(Bool(cfg.provider = "deepseek"), Str(cfg.deepseekKey)),
     Bool(cfg.provider = "none")))))))

\* GET /api/ai/status
AIStatus ==
  /\ NoResponseInHand
  /\ apiRes' = [op |-> "status", status |-> 200,
                body |-> [active     |-> And(HasApiKey(aiConfig),
                                             Bool(aiConfig.provider # "none")),
                          provider   |-> aiConfig.provider,
                          model      |-> aiConfig.model,
                          configured |-> HasApiKey(aiConfig)]]
  /\ UNCHANGED <<registryVars, aiConfig, searchVars, orderVars, lastList,
                 peerVars>>

\* Request bodies of POST /api/ai/test: nothing, a provider and a model
\* without key, and a provider, a model and a key.
TestBodies ==
  {[provider |-> "", model |-> "", apiKey |-> <<>>],
   [provider |-> "openai", model |-> "gpt", apiKey |-> <<>>],
   [provider |-> "openai", model |-> "", apiKey |-> SecretKey],
   [provider |-> "openai", model |-> "gpt", apiKey |-> SecretKey],
   [provider |-> "other", model |-> "gpt", apiKey |-> SecretKey]}

AITest_saving(body, testResult) ==
  /\ NoResponseInHand
  /\ body.apiKey # <<>> /\ body.provider = "openai" /\ body.model # ""
  /\ aiConfig' = [aiConfig EXCEPT !.provider = body.provider,
                                  !.model = body.model,
                                  !.openaiKey = body.apiKey]
  /\ apiRes' = [op |-> "test", status |-> IF testResult THEN 200 ELSE 400,
                body |-> [success |-> testResult]]
  /\ UNCHANGED <<registryVars, searchVars, orderVars, lastList, peerVars>>

\* POST /api/ai/test: the body is checked, the provider named in it is
\* called with the key of the body (testResult: that call succeeds), and the
\* answer tells the outcome.  The handler reads and writes no state of the
\* process, so its awaits are not separate steps.
AITest(body, testResult) ==
  /\ NoResponseInHand
  /\ apiRes' =
       IF body.apiKey = <<>> \/ body.provider = "" \/ body.model = ""
       THEN [op |-> "test", status |-> 400, body |-> [success |-> FALSE]]
       ELSE IF body.provider \in AIProviders /\ testResult
       THEN [op |-> "test", status |-> 200, body |-> [success |-> TRUE]]
       ELSE [op |-> "test", status |-> 400, body |-> [success |-> FALSE]]
  /\ UNCHANGED <<registryVars, aiConfig, searchVars, orderVars, lastList,
                 peerVars>>

(* ------------------------- /api/chat/search --------------------------- *)

\* res.json of the aggregate branch
Respond(products, aiResponse) ==
  /\ pc' = "responded"
  /\ res' = [status |-> 200, mode |-> "aggregate",
             totalStores |-> Len(storeConnections),
             products |-> products, aiResponse |-> aiResponse]

\* generateAIResponse from its call to its first await, or to its return in
\* demo mode, which the response follows at once.
AIStart(query, products) ==
  LET key == CurrentApiKey(aiConfig)
  IN  /\ ai' = [NoAI EXCEPT !.called = TRUE, !.config = aiConfig,
                            !.currentApiKey = key]
      /\ IF IsDemoMode(aiConfig.provider, key)
         THEN Respond(products,
                Str(generateDemoAIResponse(query, products,
                                           Len(storeConnections))))
         ELSE pc' = "awaitImport" /\ res' = NoResponse

\* The end of the for-of loop: the sort, then generateAIResponse.
EndOfLoop(results) ==
  /\ allResults' = SortByPrice(results)
  /\ UNCHANGED <<it, store, termIdx, seenProducts>>
  /\ AIStart(req.query, SortByPrice(results))

\* The for-of loop asks the Map iterator for the next entry: the loop body
\* starts on it with a new seenProducts, or the loop ends.
NextStore(results) ==
  IF it < Len(storeConnections)
  THEN /\ it' = it + 1
       /\ store' = storeConnections[it + 1]
       /\ termIdx' = 1
       /\ seenProducts' = {}
       /\ allResults' = results
       /\ UNCHANGED <<pc, ai, res>>
  ELSE EndOfLoop(results)

\* The inner loop after one searchProducts call has been handled: the next
\* term of the same store, or the next store.
NextCall(results, seen) ==
  IF termIdx < Len(searchTerms)
  THEN /\ termIdx' = termIdx + 1
       /\ seenProducts' = seen
       /\ allResults' = results
       /\ UNCHANGED <<pc, it, store, ai, res>>
  ELSE NextStore(results)

\* The handler from the request to its first await.
SearchStart(query, storeId) ==
  /\ pc = "idle"
  /\ req' = [query |-> query, storeId |-> storeId]
  /\ callLog' = <<>>
  /\ UNCHANGED <<registryVars, aiConfig>>
  /\ IF storeId # 0
     THEN /\ searchTerms' = <<>>
          /\ it' = 0 /\ termIdx' = 0 /\ seenProducts' = {} /\ allResults' = <<>>
          /\ ai' = NoAI
          /\ IF HasStore(storeId)
             THEN /\ store' = GetStore(storeId)
                  /\ pc' = "awaitSingle"
                  /\ res' = NoResponse
             ELSE /\ store' = NoStore
                  /\ pc' = "responded"
                  /\ res' = [NoResponse EXCEPT !.status = 404, !.mode = "single"]
     ELSE /\ searchTerms' = translateSearchQuery(query)
          /\ seenProducts' = {}
          /\ allResults' = <<>>
          /\ IF storeConnections # <<>>
             THEN /\ it' = 1
                  /\ store' = storeConnections[1]
                  /\ termIdx' = 1
                  /\ pc' = "awaitSearch"
                  /\ ai' = NoAI
                  /\ res' = NoResponse
             ELSE /\ it' = 0 /\ store' = NoStore /\ termIdx' = 0
                  /\ AIStart(query, <<>>)
  /\ UNCHANGED <<orderVars, apiVars, peerVars>>

RECURSIVE PushProducts_noDedup(_, _, _, _)
PushProducts_noDedup(results, seen, products, storeId) ==
  IF products = <<>> THEN [results |-> results, seen |-> seen]
  ELSE LET p == Head(products)
       IN  PushProducts_noDedup(
             Append(results,
                    [id |-> p.id, price |-> p.price, storeId |-> storeId]),
             seen \cup {p.id}, Tail(products), storeId)

RECURSIVE PushProducts_global(_, _, _, _)
PushProducts_global(results, seen, products, storeId) ==
  IF products = <<>> THEN [results |-> results, seen |-> seen]
  ELSE LET p == Head(products)
       IN  IF \E i \in 1..Len(results) : results[i].id = p.id
           THEN PushProducts_global(results, seen, Tail(products), storeId)
           ELSE PushProducts_global(
                  Append(results,
                         [id |-> p.id, price |-> p.price, storeId |-> storeId]),
                  seen \cup {p.id}, Tail(products), storeId)

\* products.forEach: a product whose id the store's set lacks is added to
\* the set and pushed with the store's id.
RECURSIVE PushProducts(_, _, _, _)
PushProducts(results, seen, products, storeId) ==
  IF products = <<>> THEN [results |-> results, seen |-> seen]
  ELSE LET p == Head(products)
       IN  IF p.id \in seen
           THEN PushProducts(results, seen, Tail(products), storeId)
           ELSE PushProducts(
                  Append(results,
                         [id |-> p.id, price |-> p.price, storeId |-> storeId]),
                  seen \cup {p.id}, Tail(products), storeId)

SentTerm_expanded ==
  IF termIdx = 0
  THEN LET terms == translateSearchQuery(req.query) IN terms[Len(terms)]
  ELSE searchTerms[termIdx]

\* The first argument of the searchProducts call in flight: the request's
\* query in the single-store branch (where no term is iterated, termIdx = 0),
\* the current search term in the loop.
SentTerm ==
  IF termIdx = 0 THEN req.query ELSE searchTerms[termIdx]

\* One entry of the log of upstream calls: the store called, the position of
\* the term, the term sent, and the outcome.
LogEntry(ok, products) ==
  [storeId |-> store.id, term |-> termIdx, sent |-> SentTerm, ok |-> ok,
   products |-> products]

\* store.client.searchProducts(searchTerm, 10) resolves.
SearchReply(products) ==
  /\ pc = "awaitSearch"
  /\ apiRes = NoApiRes
  /\ products \in SearchAnswers(store.url)
  /\ callLog' = Append(callLog, LogEntry(TRUE, products))
  /\ LET r == PushProducts(allResults, seenProducts, products, store.id)
     IN  NextCall(r.results, r.seen)
  /\ UNCHANGED <<registryVars, aiConfig, req, searchTerms>>
  /\ UNCHANGED <<orderVars, apiVars, peerVars>>

SearchThrow_abort ==
  /\ pc = "awaitSearch"
  /\ apiRes = NoApiRes
  /\ callLog' = Append(callLog, LogEntry(FALSE, <<>>))
  /\ pc' = "responded"
  /\ res' = [NoResponse EXCEPT !.status = 500, !.mode = "aggregate"]
  /\ UNCHANGED <<registryVars, aiConfig, req, searchTerms, loopVars, ai>>
  /\ UNCHANGED <<orderVars, apiVars, peerVars>>

SearchThrow_skipStore ==
  /\ pc = "awaitSearch"
  /\ apiRes = NoApiRes
  /\ callLog' = Append(callLog, LogEntry(FALSE, <<>>))
  /\ NextStore(allResults)
  /\ UNCHANGED <<registryVars, aiConfig, req, searchTerms>>
  /\ UNCHANGED <<orderVars, apiVars, peerVars>>

SearchThrow_evict ==
  /\ pc = "awaitSearch"
  /\ apiRes = NoApiRes
  /\ callLog' = Append(callLog, LogEntry(FALSE, <<>>))
  /\ NextCall(allResults, seenProducts)
  /\ storeConnections' =
       SelectSeq(storeConnections, LAMBDA e : e.id # store.id)
  /\ UNCHANGED <<uuids, aiConfig, req, searchTerms>>
  /\ UNCHANGED <<orderVars, apiVars, peerVars>>

\* store.client.searchProducts(searchTerm, 10) rejects: the inner catch logs
\* and the loop goes on.
SearchThrow ==
  /\ pc = "awaitSearch"
  /\ apiRes = NoApiRes
  /\ callLog' = Append(callLog, LogEntry(FALSE, <<>>))
  /\ NextCall(allResults, seenProducts)
  /\ UNCHANGED <<registryVars, aiConfig, req, searchTerms>>
  /\ UNCHANGED <<orderVars, apiVars, peerVars>>

\* The single-store branch: its one searchProducts call resolves.
SingleReply(products) ==
  /\ pc = "awaitSingle"
  /\ apiRes = NoApiRes
  /\ products \in SearchAnswers(store.url)
  /\ callLog' = Append(callLog, LogEntry(TRUE, products))
  /\ pc' = "responded"
  /\ res' = [status |-> 200, mode |-> "single", totalStores |-> 0,
             products |-> [i \in 1..Len(products) |->
                             [id |-> products[i].id, price |-> products[i].price,
                              storeId |-> store.id]],
             aiResponse |-> Undefined]
  /\ UNCHANGED <<registryVars, aiConfig, req, searchTerms, loopVars, ai>>
  /\ UNCHANGED <<orderVars, apiVars, peerVars>>

\* The single-store branch: the call rejects and the outer catch answers.
SingleThrow ==
  /\ pc = "awaitSingle"
  /\ apiRes = NoApiRes
  /\ callLog' = Append(callLog, LogEntry(FALSE, <<>>))
  /\ pc' = "responded"
  /\ res' = [NoResponse EXCEPT !.status = 500, !.mode = "single"]
  /\ UNCHANGED <<registryVars, aiConfig, req, searchTerms, loopVars, ai>>
  /\ UNCHANGED <<orderVars, apiVars, peerVars>>

\* await import('axios') resolves: the if-chain on aiConfig.provider sends
\* the request with the key picked before, or matches no provider and the
\* function returns undefined.
AIImported ==
  /\ pc = "awaitImport"
  /\ apiRes = NoApiRes
  /\ IF aiConfig.provider \in AIProviders
     THEN /\ ai' = [ai EXCEPT !.endpoint = aiConfig.provider, !.calls = @ + 1]
          /\ pc' = "awaitAI"
          /\ res' = res
     ELSE /\ ai' = ai
          /\ Respond(allResults, Undefined)
  /\ UNCHANGED <<registryVars, aiConfig, req, searchTerms, loopVars, callLog>>
  /\ UNCHANGED <<orderVars, apiVars, peerVars>>

\* axios.post settles.
AIReply(reply) ==
  /\ pc = "awaitAI"
  /\ apiRes = NoApiRes
  /\ ai' = [ai EXCEPT !.reply = reply]
  /\ Respond(allResults, ExtractAIText(ai.endpoint, reply))
  /\ UNCHANGED <<registryVars, aiConfig, req, searchTerms, loopVars, callLog>>
  /\ UNCHANGED <<orderVars, apiVars, peerVars>>

\* The handler returns after res.json: its locals are gone.
Finish ==
  /\ pc = "responded"
  /\ pc' = "idle"
  /\ req' = [query |-> <<>>, storeId |-> 0]
  /\ searchTerms' = <<>>
  /\ it' = 0
  /\ store' = NoStore
  /\ termIdx' = 0
  /\ seenProducts' = {}
  /\ allResults' = <<>>
  /\ callLog' = <<>>
  /\ ai' = NoAI
  /\ res' = NoResponse
  /\ UNCHANGED <<registryVars, aiConfig>>
  /\ UNCHANGED <<orderVars, apiVars, peerVars>>

(* ------------------------------- orders ------------------------------- *)

\* The products a shop holds, as listProducts reports them: the id and the
\* variants; a variant id 0 stands for a variant without id.
Listing(url) ==
  IF url = "shop-a"
  THEN << [id |-> 1, variants |-> << [id |-> 11] >>],
          [id |-> 2, variants |-> <<>>] >>
  ELSE << [id |-> 1, variants |-> << [id |-> 0] >>],
          [id |-> 2, variants |-> << [id |-> 22], [id |-> 23] >>] >>

\* productId of a request body: 0 stands for a body without productId, the
\* largest is the id of no product.
OrderProductIds == 0..3

\* quantity of a request body (1 is also the default of the destructuring).
Quantities == {1}

\* The order the store's createOrder resolves with.
ShopifyOrder ==
  [id |-> 501, order_number |-> 1001, total_price |-> Str(<<"5", "0">>)]

\* new Date(): the instants a handler can read.
Date(ms) == [t |-> "date", ms |-> ms]
Dates == {Date(1), Date(2)}

\* paymentMethod of a pay request body: absent, or given.
PayMethods == {Undefined, Str(<<"card">>)}

\* One call of the order handler to the client of a store, not settled yet,
\* and the log of calls once the last call has settled.
ClientCall(storeId, method) ==
  [storeId |-> storeId, method |-> method, outcome |-> "pending"]
Settled(outcome) ==
  [orderCalls EXCEPT ![Len(orderCalls)].outcome = outcome]

\* The status of the record a pay or status request finds, "" when it finds
\* none (kept with the response to tell a first payment from a later one).
StatusFound(trackingId) ==
  IF trackingId \in DOMAIN orderTracker
  THEN orderTracker[trackingId].status ELSE ""

\* res.status(status).json({ error }) of the order handler.
OrderError(status, error) ==
  /\ orderPc' = "responded"
  /\ orderRes' = [status |-> status, error |-> error, trackingId |-> 0]

\* orderTracker.has(trackingId), and the Map after set(trackingId, record).
HasOrder(trackingId) == trackingId \in DOMAIN orderTracker
SetOrder(trackingId, record) ==
  [t \in DOMAIN orderTracker \cup {trackingId} |->
     IF t = trackingId THEN record ELSE orderTracker[t]]

\* The record /api/orders/create stores: paidAt and paymentMethod are not
\* among its properties (order_number is set, the default order.name of
\* orderNumber is not taken).
NewOrderRecord(order, createdAt) ==
  [orderId       |-> order.id,
   orderNumber   |-> order.order_number,
   storeId       |-> orderReq.storeId,
   storeName     |-> orderStore.name,
   quantity      |-> orderReq.quantity,
   total         |-> order.total_price,
   currency      |-> "ILS",
   status        |-> "pending_payment",
   createdAt     |-> createdAt,
   paidAt        |-> Undefined,
   paymentMethod |-> Undefined]

OrderStart_noLookup(productId, storeId, quantity) ==
  /\ orderPc = "idle"
  /\ NoResponseInHand
  /\ orderReq' = [productId |-> productId, storeId |-> storeId,
                  quantity |-> quantity]
  /\ orderStore' = IF HasStore(storeId) THEN GetStore(storeId)
                   ELSE [NoStore EXCEPT !.id = storeId, !.url = "shop-a"]
  /\ orderCalls' = << ClientCall(storeId, "listProducts") >>
  /\ orderPc' = "awaitList"
  /\ orderRes' = NoOrderRes
  /\ UNCHANGED <<registryVars, aiConfig, searchVars, orderTracker, orderUuids,
                 variantId, payRes>>
  /\ UNCHANGED <<apiVars, peerVars>>

\* POST /api/orders/create up to its first await: the registry lookup, and
\* the listProducts call when the store is there.
OrderStart(productId, storeId, quantity) ==
  /\ orderPc = "idle"
  /\ NoResponseInHand
  /\ orderReq' = [productId |-> productId, storeId |-> storeId,
                  quantity |-> quantity]
  /\ IF HasStore(storeId)
     THEN /\ orderStore' = GetStore(storeId)
          /\ orderCalls' = << ClientCall(storeId, "listProducts") >>
          /\ orderPc' = "awaitList"
          /\ orderRes' = NoOrderRes
     ELSE /\ orderStore' = NoStore
          /\ orderCalls' = <<>>
          /\ OrderError(404, "Store not found")
  /\ UNCHANGED <<registryVars, aiConfig, searchVars, orderTracker, orderUuids,
                 variantId, payRes>>
  /\ UNCHANGED <<apiVars, peerVars>>

\* products.find(p => p.id.toString() === productId.toString()): the index
\* of the first product with that id, 0 when there is none.
FindProduct(products, productId) ==
  IF \E i \in 1..Len(products) : products[i].id = productId
  THEN CHOOSE i \in 1..Len(products) :
         /\ products[i].id = productId
         /\ \A j \in 1..(i - 1) : products[j].id # productId
  ELSE 0

FirstVariantId_default(product) ==
  IF product.variants = <<>> \/ product.variants[1].id = 0 THEN 1
  ELSE product.variants[1].id

\* product.variants[0]?.id, 0 when it is undefined.
FirstVariantId(product) ==
  IF product.variants = <<>> THEN 0 ELSE product.variants[1].id

\* listProducts resolves: the product is looked up, then its first variant,
\* and createOrder is called.  Without productId in the body the callback of
\* find throws on the first product and the outer catch answers.
ListProductsReply ==
  /\ orderPc = "awaitList"
  /\ payRes = NoPayRes
  /\ apiRes = NoApiRes
  /\ LET products == Listing(orderStore.url)
         found    == FindProduct(products, orderReq.productId)
     IN  IF orderReq.productId = 0 /\ products # <<>>
         THEN /\ OrderError(400, "Order creation failed")
              /\ orderCalls' = Settled("resolved")
              /\ variantId' = variantId
         ELSE IF found = 0
         THEN /\ OrderError(404, "Product not found")
              /\ orderCalls' = Settled("resolved")
              /\ variantId' = variantId
         ELSE IF FirstVariantId(products[found]) = 0
         THEN /\ OrderError(400, "No variants available")
              /\ orderCalls' = Settled("resolved")
              /\ variantId' = variantId
         ELSE /\ variantId' = FirstVariantId(products[found])
              /\ orderCalls' = Append(Settled("resolved"),
                                      ClientCall(orderStore.id, "createOrder"))
              /\ orderPc' = "awaitCreate"
              /\ orderRes' = orderRes
  /\ UNCHANGED <<registryVars, aiConfig, searchVars, orderTracker, orderUuids,
                 orderReq, orderStore, payRes>>
  /\ UNCHANGED <<apiVars, peerVars>>

\* listProducts rejects: the outer catch answers.
ListProductsThrow ==
  /\ orderPc = "awaitList"
  /\ payRes = NoPayRes
  /\ apiRes = NoApiRes
  /\ OrderError(400, "Order creation failed")
  /\ orderCalls' = Settled("rejected")
  /\ UNCHANGED <<registryVars, aiConfig, searchVars, orderTracker, orderUuids,
                 orderReq, orderStore, variantId, payRes>>
  /\ UNCHANGED <<apiVars, peerVars>>

NewTrackingId_reused == IF orderUuids = 0 THEN orderUuids + 1 ELSE orderUuids

\* uuidv4(): an id not minted before.
NewTrackingId == orderUuids + 1

CreateOrderThrow_recorded ==
  /\ orderPc = "awaitCreate"
  /\ payRes = NoPayRes
  /\ apiRes = NoApiRes
  /\ orderUuids' = orderUuids + 1
  /\ orderTracker' =
       SetOrder(NewTrackingId,
                [NewOrderRecord(ShopifyOrder, Date(1)) EXCEPT !.status = "failed"])
  /\ OrderError(400, "Order creation failed")
  /\ orderCalls' = Settled("rejected")
  /\ UNCHANGED <<registryVars, aiConfig, searchVars, orderReq, orderStore,
                 variantId, payRes>>
  /\ UNCHANGED <<apiVars, peerVars>>

\* createOrder resolves: a tracking id is minted, the record is stored under
\* it and the handler answers.
CreateOrderReply(order, createdAt) ==
  /\ orderPc = "awaitCreate"
  /\ payRes = NoPayRes
  /\ apiRes = NoApiRes
  /\ orderUuids' = orderUuids + 1
  /\ orderTracker' = SetOrder(NewTrackingId, NewOrderRecord(order, createdAt))
  /\ orderPc' = "responded"
  /\ orderRes' = [status |-> 200, error |-> "", trackingId |-> NewTrackingId]
  /\ orderCalls' = Settled("resolved")
  /\ UNCHANGED <<registryVars, aiConfig, searchVars, orderReq, orderStore,
                 variantId, payRes>>
  /\ UNCHANGED <<apiVars, peerVars>>

\* createOrder rejects: the outer catch answers.
CreateOrderThrow ==
  /\ orderPc = "awaitCreate"
  /\ payRes = NoPayRes
  /\ apiRes = NoApiRes
  /\ OrderError(400, "Order creation failed")
  /\ orderCalls' = Settled("rejected")
  /\ UNCHANGED <<registryVars, aiConfig, searchVars, orderTracker, orderUuids,
                 orderReq, orderStore, variantId, payRes>>
  /\ UNCHANGED <<apiVars, peerVars>>

\* The order handler returns after its response: its locals are gone.
FinishOrder ==
  /\ orderPc = "responded"
  /\ orderPc' = "idle"
  /\ orderReq' = NoOrderReq
  /\ orderStore' = NoStore
  /\ variantId' = 0
  /\ orderCalls' = <<>>
  /\ orderRes' = NoOrderRes
  /\ UNCHANGED <<registryVars, aiConfig, searchVars, orderTracker, orderUuids,
                 payRes>>
  /\ UNCHANGED <<apiVars, peerVars>>

\* const { paymentMethod = 'paypal_demo' } = req.body
PaymentMethod(given) ==
  IF given = Undefined THEN Str(<<"paypal_demo">>) ELSE given

PaidRecord_noStamp(order, paymentMethod, paidAt) ==
  [order EXCEPT !.status = "paid", !.paymentMethod = paymentMethod]

PaidRecord_toggle(order, paymentMethod, paidAt) ==
  [order EXCEPT !.status = IF @ = "paid" THEN "pending_payment" ELSE "paid",
                !.paidAt = paidAt, !.paymentMethod = paymentMethod]

\* order.status = 'paid'; order.paidAt = new Date();
\* order.paymentMethod = paymentMethod
PaidRecord(order, paymentMethod, paidAt) ==
  [order EXCEPT !.status = "paid", !.paidAt = paidAt,
                !.paymentMethod = paymentMethod]

\* The order as the pay response and the status response show it.
PayView(order) ==
  [orderNumber |-> order.orderNumber, status |-> order.status,
   total |-> order.total, currency |-> order.currency, paidAt |-> order.paidAt]
StatusView(order) ==
  [orderNumber |-> order.orderNumber, status |-> order.status,
   quantity |-> order.quantity, total |-> order.total,
   currency |-> order.currency, storeName |-> order.storeName,
   createdAt |-> order.createdAt, paidAt |-> order.paidAt]

Pay_upsert(trackingId, given, paidAt) ==
  /\ NoResponseInHand
  /\ LET base == IF HasOrder(trackingId) THEN orderTracker[trackingId]
                 ELSE NewOrderRecord(ShopifyOrder, paidAt)
         paid == PaidRecord(base, PaymentMethod(given), paidAt)
     IN  /\ orderTracker' = SetOrder(trackingId, paid)
         /\ payRes' = [op |-> "pay", trackingId |-> trackingId,
                       was |-> StatusFound(trackingId),
                       status |-> IF HasOrder(trackingId) THEN 200 ELSE 404,
                       order |-> PayView(paid)]
  /\ UNCHANGED <<registryVars, aiConfig, searchVars, orderUuids,
                 orderHandlerVars>>
  /\ UNCHANGED <<apiVars, peerVars>>

\* POST /api/orders/:trackingId/pay
Pay(trackingId, given, paidAt) ==
  /\ NoResponseInHand
  /\ IF HasOrder(trackingId)
     THEN LET paid == PaidRecord(orderTracker[trackingId],
                                 PaymentMethod(given), paidAt)
          IN  /\ orderTracker' = [orderTracker EXCEPT ![trackingId] = paid]
              /\ payRes' = [op |-> "pay", trackingId |-> trackingId,
                            was |-> StatusFound(trackingId),
                            status |-> 200, order |-> PayView(paid)]
     ELSE /\ orderTracker' = orderTracker
          /\ payRes' = [op |-> "pay", trackingId |-> trackingId,
                        was |-> StatusFound(trackingId),
                        status |-> 404, order |-> Undefined]
  /\ UNCHANGED <<registryVars, aiConfig, searchVars, orderUuids,
                 orderHandlerVars>>
  /\ UNCHANGED <<apiVars, peerVars>>

\* GET /api/orders/:trackingId/status
Status(trackingId) ==
  /\ NoResponseInHand
  /\ payRes' = IF HasOrder(trackingId)
               THEN [op |-> "status", trackingId |-> trackingId,
                     was |-> StatusFound(trackingId),
                     status |-> 200,
                     order |-> StatusView(orderTracker[trackingId])]
               ELSE [op |-> "status", trackingId |-> trackingId,
                     was |-> StatusFound(trackingId),
                     status |-> 404, order |-> Undefined]
  /\ UNCHANGED <<registryVars, aiConfig, searchVars, orderTracker, orderUuids,
                 orderHandlerVars>>
  /\ UNCHANGED <<apiVars, peerVars>>

\* The pay or status handler returns after its response.
FinishPay ==
  /\ payRes # NoPayRes
  /\ payRes' = NoPayRes
  /\ UNCHANGED <<registryVars, aiConfig, searchVars, orderTracker, orderUuids,
                 orderHandlerVars>>
  /\ UNCHANGED <<apiVars, peerVars>>

(* ---------------------- MCP server (index.ts) ------------------------- *)

\* The tools of the server, and the method of the client each one calls.
ToolNames ==
  {"search_products", "get_product_details", "list_products", "create_order",
   "list_orders", "compare_products", "find_best_deals", "search_by_vendor"}
ToolMethod(name) ==
  CASE name = "search_products"     -> "searchProducts"
    [] name = "get_product_details" -> "getProduct"
    [] name = "list_products"       -> "listProducts"
    [] name = "create_order"        -> "createOrder"
    [] name = "list_orders"         -> "listOrders"
    [] name = "compare_products"    -> "compareProducts"
    [] name = "find_best_deals"     -> "findBestDeals"
    [] name = "search_by_vendor"    -> "searchByVendor"

\* Names of tool calls: the tools, and a name that is no tool.
CallNames == ToolNames \cup {"no_such_tool"}

\* throw new McpError(code, message)
McpError(code, message) ==
  [kind |-> "error", code |-> code, message |-> message, tools |-> {},
   deals |-> <<>>]

\* The module is loaded: the client is constructed when both environment
\* variables are set, and stays null when they are not or when the
\* constructor throws (constructed: it does not).
McpLoad(url, token, constructed) ==
  /\ ~mcp.loaded
  /\ mcp' = [mcp EXCEPT
               !.loaded = TRUE, !.STORE_URL = url, !.ACCESS_TOKEN = token,
               !.shopifyClient =
                 IF url # "" /\ token # "" /\ constructed
                 THEN "client" ELSE "null"]
  /\ UNCHANGED <<webVars, auth, stream, gemini>>

\* The ListToolsRequestSchema handler.
McpListTools ==
  /\ mcp.loaded /\ mcp.pc = "idle"
  /\ mcp' = [mcp EXCEPT
               !.pc = "responded", !.method = "tools/list",
               !.res = [kind |-> "result", code |-> "", message |-> "",
                        tools |-> IF mcp.shopifyClient # "null"
                                  THEN ToolNames ELSE {},
                        deals |-> <<>>]]
  /\ UNCHANGED <<webVars, auth, stream, gemini>>

McpCallTool_unguarded(name) ==
  /\ mcp.loaded /\ mcp.pc = "idle"
  /\ IF name \in ToolNames
     THEN mcp' = [mcp EXCEPT
                    !.pc = "awaitClient", !.method = "tools/call",
                    !.name = name, !.clientCalls = <<ToolMethod(name)>>]
     ELSE mcp' = [mcp EXCEPT
                    !.pc = "responded", !.method = "tools/call",
                    !.name = name,
                    !.res = McpError("InternalError", "Tool execution failed")]
  /\ UNCHANGED <<webVars, auth, stream, gemini>>

\* The CallToolRequestSchema handler up to its first await: the check of
\* the client, then the switch on the tool name, whose default throws
\* inside the try and is thrown again by the catch.
McpCallTool(name) ==
  /\ mcp.loaded /\ mcp.pc = "idle"
  /\ IF mcp.shopifyClient = "null"
     THEN mcp' = [mcp EXCEPT
                    !.pc = "responded", !.method = "tools/call",
                    !.name = name,
                    !.res = McpError("InternalError",
                                     "Shopify client not initialized")]
     ELSE IF name \in ToolNames
     THEN mcp' = [mcp EXCEPT
                    !.pc = "awaitClient", !.method = "tools/call",
                    !.name = name, !.clientCalls = <<ToolMethod(name)>>]
     ELSE mcp' = [mcp EXCEPT
                    !.pc = "responded", !.method = "tools/call",
                    !.name = name,
                    !.res = McpError("InternalError", "Tool execution failed")]
  /\ UNCHANGED <<webVars, auth, stream, gemini>>

\* The call on the client settles: the result is returned, or the catch
\* throws the failure as an McpError.
McpClientReply(ok) ==
  /\ mcp.pc = "awaitClient"
  /\ ok => mcp.name # "find_best_deals"
  /\ mcp' = [mcp EXCEPT
               !.pc = "responded",
               !.res = IF ok /\ mcp.shopifyClient # "null"
                       THEN [kind |-> "result", code |-> "", message |-> "",
                             tools |-> {}, deals |-> <<>>]
                       ELSE McpError("InternalError", "Tool execution failed")]
  /\ UNCHANGED <<webVars, auth, stream, gemini>>

\* Prices of products, and the product lists of a store: product i of a
\* list has id i.
DealPrices == {0, 10, 100}
DealLists ==
  UNION {{l \in [1..n -> [id : 1..n, price : DealPrices]] :
            \A i \in 1..n : l[i].id = i} : n \in 0..MaxDeals}

\* A deal score, the fraction num / den with den > 0.
Fraction(num, den) == [num |-> num, den |-> den]

MinPrice(products) ==
  CHOOSE m \in {products[i].price : i \in 1..Len(products)} :
    \A i \in 1..Len(products) : m <= products[i].price
MaxPrice(products) ==
  CHOOSE m \in {products[i].price : i \in 1..Len(products)} :
    \A i \in 1..Len(products) : m >= products[i].price

\* score(products): the products annotated with dealScore, the price
\* normalised against the least and the greatest price of the list:
\* 1 - (price - min) / (max - min), and 1 for all when max = min.
score(products) ==
  [i \in 1..Len(products) |->
     [id |-> products[i].id, price |-> products[i].price,
      dealScore |->
        IF MaxPrice(products) = MinPrice(products)
        THEN Fraction(1, 1)
        ELSE Fraction(MaxPrice(products) - products[i].price,
                      MaxPrice(products) - MinPrice(products))]]

DealView_byPrice(p) ==
  [id |-> p.id, price |-> p.price, dealScore |-> Fraction(p.price, 1)]

\* deals.map(p => ({ id, title, price, vendor, type, dealScore, image }))
DealView(p) ==
  [id |-> p.id, price |-> p.price, dealScore |-> p.dealScore]

\* find_best_deals: shopifyClient.findBestDeals resolves with the scored
\* products of the store and the tool answers with their views.
McpFindBestDealsReply(products) ==
  /\ mcp.pc = "awaitClient"
  /\ mcp.name = "find_best_deals"
  /\ mcp' = [mcp EXCEPT
               !.pc = "responded",
               !.res = [kind |-> "result", code |-> "", message |-> "",
                        tools |-> {},
                        deals |-> [i \in 1..Len(products) |->
                                     DealView(score(products)[i])]]]
  /\ UNCHANGED <<webVars, auth, stream, gemini>>

\* The handler has returned.
McpFinish ==
  /\ mcp.pc = "responded"
  /\ mcp' = [mcp EXCEPT
               !.pc = "idle", !.method = "", !.name = "",
               !.clientCalls = <<>>, !.served = @ + 1, !.res = NoMcpRes]
  /\ UNCHANGED <<webVars, auth, stream, gemini>>

(* ------------- authorization polling (chat-v3.js, Auth) --------------- *)

\* Maximum number of polling attempts of one call of checkAuthStatus.
maxAttempts == 10

\* What a token-status request can come to: the three kinds of status
\* in the answer, and a failure (the fetch rejects, the answer is not ok,
\* or its body is no JSON).
FetchOutcomes == {"authorized", "pending", "other", "failed"}

pollAuthStatus_offByOne(p) ==
  IF p.attemptCount > maxAttempts
  THEN [p EXCEPT !.pc = "stopped"]
  ELSE [p EXCEPT !.pc = "fetching", !.attemptCount = @ + 1,
                 !.fetches = @ + 1]

\* pollAuthStatus up to its await: the cap, the count, and the request.
pollAuthStatus(p) ==
  IF p.attemptCount >= maxAttempts
  THEN [p EXCEPT !.pc = "stopped"]
  ELSE [p EXCEPT !.pc = "fetching", !.attemptCount = @ + 1,
                 !.fetches = @ + 1]

\* checkAuthStatus(conversationId): the counter starts at 0 and the first
\* poll runs at once.
CheckAuthStatus(c) ==
  /\ auth[c].pc = "idle"
  /\ auth' = [auth EXCEPT ![c] = pollAuthStatus([@ EXCEPT !.attemptCount = 0])]
  /\ UNCHANGED <<webVars, mcp, stream, gemini>>

FetchSettles_retryOther(c, outcome) ==
  /\ auth[c].pc = "fetching"
  /\ auth' = [auth EXCEPT ![c] =
       CASE outcome = "authorized" ->
              [@ EXCEPT !.pc = "stopped", !.messages = @ + 1,
                        !.final = TRUE]
         [] outcome = "pending" ->
              [@ EXCEPT !.pc = "timer", !.final = FALSE]
         [] outcome = "other" ->
              [@ EXCEPT !.pc = "timer", !.final = TRUE]
         [] outcome = "failed" ->
              IF auth[c].attemptCount < maxAttempts
              THEN [@ EXCEPT !.pc = "timer", !.final = FALSE]
              ELSE [@ EXCEPT !.pc = "stopped", !.final = FALSE]]
  /\ UNCHANGED <<webVars, mcp, stream, gemini>>

\* The token-status request of call c settles.
FetchSettles(c, outcome) ==
  /\ auth[c].pc = "fetching"
  /\ auth' = [auth EXCEPT ![c] =
       CASE outcome = "authorized" ->
              [@ EXCEPT !.pc = "stopped", !.messages = @ + 1,
                        !.final = TRUE]
         [] outcome = "pending" ->
              [@ EXCEPT !.pc = "timer", !.final = FALSE]
         [] outcome = "other" ->
              [@ EXCEPT !.pc = "stopped", !.messages = @ + 1,
                        !.final = TRUE]
         [] outcome = "failed" ->
              IF auth[c].attemptCount < maxAttempts
              THEN [@ EXCEPT !.pc = "timer", !.final = FALSE]
              ELSE [@ EXCEPT !.pc = "stopped", !.final = FALSE]]
  /\ UNCHANGED <<webVars, mcp, stream, gemini>>

\* The timer set by setTimeout(pollAuthStatus, pollInterval) fires.
TimerFires(c) ==
  /\ auth[c].pc = "timer"
  /\ auth' = [auth EXCEPT ![c] = pollAuthStatus(@)]
  /\ UNCHANGED <<webVars, mcp, stream, gemini>>

(* -------------- streamed chat response (chat-v3.js, Chat) ------------- *)

\* The events the server sends: text deltas, a products event and the end
\* of the message.
NoEvent == [type |-> "", text |-> <<>>, products |-> <<>>]
StreamEvents ==
  {[NoEvent EXCEPT !.type = "content_block_delta", !.text = <<"a">>],
   [NoEvent EXCEPT !.type = "content_block_delta", !.text = <<"b">>],
   [NoEvent EXCEPT !.type = "products", !.products = <<1>>],
   [NoEvent EXCEPT !.type = "message_stop"]}

\* The bytes of the stream in pieces: the two halves "da" and "ta: " of
\* the field name, the two halves of the JSON text of an event, and the
\* line feed.
Piece(k, ev) == [k |-> k, ev |-> ev]
LF == Piece("lf", NoEvent)

\* One event on the wire: a data line and the blank line that ends it.
SSELine(ev) ==
  <<Piece("da", NoEvent), Piece("ta: ", NoEvent),
    Piece("json1", ev), Piece("json2", ev), LF, LF>>

RECURSIVE SSEBytes(_)
SSEBytes(events) ==
  IF events = <<>> THEN <<>>
  ELSE SSELine(Head(events)) \o SSEBytes(Tail(events))

\* chunk.split('\n')
RECURSIVE Split(_)
Split(chunk) ==
  IF \A i \in 1..Len(chunk) : chunk[i] # LF THEN <<chunk>>
  ELSE LET i == CHOOSE i \in 1..Len(chunk) :
                  chunk[i] = LF /\ \A j \in 1..(i - 1) : chunk[j] # LF
       IN  <<SubSeq(chunk, 1, i - 1)>> \o Split(SubSeq(chunk, i + 1, Len(chunk)))

\* line.startsWith('data: ')
StartsWithData(line) ==
  Len(line) >= 2 /\ line[1].k = "da" /\ line[2].k = "ta: "

\* JSON.parse(data): the event when data is the whole JSON text of one,
\* and a SyntaxError (no event) otherwise.
JSONParse(data) ==
  IF /\ Len(data) = 2
     /\ data[1].k = "json1" /\ data[2].k = "json2"
     /\ data[1].ev = data[2].ev
  THEN data[1].ev
  ELSE NoEvent

\* The body of the loop over the lines of a chunk.
HandleLine(st, line) ==
  IF ~StartsWithData(line) THEN st
  ELSE LET parsed == JSONParse(SubSeq(line, 3, Len(line))) IN
       IF parsed.type = "content_block_delta" /\ parsed.text # <<>>
       THEN [st EXCEPT !.assistantMessage = @ \o parsed.text]
       ELSE IF parsed.type = "products" /\ parsed.products # <<>>
       THEN [st EXCEPT !.currentProducts = parsed.products]
       ELSE IF parsed.type = "message_stop"
       THEN IF Len(st.currentProducts) > 0
            THEN [st EXCEPT !.displayed = Append(@, st.currentProducts)]
            ELSE st
       ELSE st

RECURSIVE HandleLines(_, _)
HandleLines(st, lines) ==
  IF lines = <<>> THEN st
  ELSE HandleLines(HandleLine(st, Head(lines)), Tail(lines))

\* handleStreamingResponse(response) is called for a response whose body
\* will carry the given events.
HandleStreamingResponse(events) ==
  /\ stream.pc = "idle"
  /\ stream' = [NoStream EXCEPT !.pc = "reading", !.events = events,
                                !.rest = SSEBytes(events)]
  /\ UNCHANGED <<webVars, mcp, auth, gemini>>

\* reader.read() resolves with the next n bytes, and the chunk is handled.
ReadChunk(n) ==
  /\ stream.pc = "reading"
  /\ n \in 1..Len(stream.rest)
  /\ stream' = [HandleLines(stream, Split(SubSeq(stream.rest, 1, n)))
                  EXCEPT !.rest = SubSeq(stream.rest, n + 1, Len(stream.rest))]
  /\ UNCHANGED <<webVars, mcp, auth, gemini>>

\* reader.read() resolves with done.
ReadDone ==
  /\ stream.pc = "reading"
  /\ stream.rest = <<>>
  /\ stream' = [stream EXCEPT !.pc = "done"]
  /\ UNCHANGED <<webVars, mcp, auth, gemini>>

(* ---------------- Gemini service (streamConversation) ----------------- *)

\* The handlers a caller may pass in streamHandlers.
StreamHandlers == {"onText", "onMessage", "onContentBlock", "onToolUse"}

\* response.functionCalls: undefined, or an array of calls, each given by
\* the name of its function.
NoFunctionCalls == [defined |-> FALSE, calls |-> <<>>]
FunctionCalls ==
  {NoFunctionCalls}
    \cup {[defined |-> TRUE, calls |-> c] :
            c \in UNION {[1..n -> {"search", "cart"}] : n \in 0..MaxToolCalls}}

\* toolCalls: response.functionCalls when it is a non-empty array.
ToolCalls(functionCalls) ==
  IF functionCalls.defined /\ Len(functionCalls.calls) > 0
  THEN functionCalls.calls ELSE <<>>

\* A block of the content of the final message; the id of a tool_use block
\* is written as its position among the calls.
TextBlock(text) == [type |-> "text", text |-> text, id |-> 0, name |-> ""]
ToolUseBlock(i, name) ==
  [type |-> "tool_use", text |-> <<>>, id |-> i, name |-> name]

FinalMessage_byText(fullResponse, toolCalls) ==
  [role |-> "assistant",
   content |-> (IF fullResponse # <<>> THEN <<TextBlock(fullResponse)>> ELSE <<>>)
                 \o [i \in 1..Len(toolCalls) |-> ToolUseBlock(i, toolCalls[i])],
   stop_reason |-> IF fullResponse = <<>> THEN "tool_use" ELSE "end_turn"]

\* The final message in the format of the caller: the text block, if there
\* is text, then one tool_use block per call.
FinalMessage(fullResponse, toolCalls) ==
  [role |-> "assistant",
   content |-> (IF fullResponse # <<>> THEN <<TextBlock(fullResponse)>> ELSE <<>>)
                 \o [i \in 1..Len(toolCalls) |-> ToolUseBlock(i, toolCalls[i])],
   stop_reason |-> IF Len(toolCalls) > 0 THEN "tool_use" ELSE "end_turn"]

\* A call of a handler, with the text, the message or the block it is given.
HandlerCall(handler, arg) == [handler |-> handler, arg |-> arg]

\* The handler calls made before the first await: onText, onMessage, and
\* onContentBlock for every block, each if the handler is given.
SyncCalls(handlers, fullResponse, message) ==
  (IF fullResponse # <<>> /\ "onText" \in handlers
   THEN <<HandlerCall("onText", fullResponse)>> ELSE <<>>)
  \o (IF "onMessage" \in handlers
      THEN <<HandlerCall("onMessage", message)>> ELSE <<>>)
  \o (IF "onContentBlock" \in handlers
      THEN [i \in 1..Len(message.content) |->
              HandlerCall("onContentBlock", message.content[i])]
      ELSE <<>>)

\* The position of the first tool_use block after position i, 0 if none.
NextToolUse(content, i) ==
  IF \E j \in (i + 1)..Len(content) : content[j].type = "tool_use"
  THEN CHOOSE j \in (i + 1)..Len(content) :
         /\ content[j].type = "tool_use"
         /\ \A k \in (i + 1)..(j - 1) : content[k].type # "tool_use"
  ELSE 0

\* The loop over the tool_use blocks, from position i on: the next block
\* is handed to onToolUse, which is awaited, or the message is returned.
ToolUseLoop(g, i) ==
  LET j == IF "onToolUse" \in g.handlers
           THEN NextToolUse(g.finalMessage.content, i) ELSE 0
  IN  IF j = 0
      THEN [g EXCEPT !.pc = "returned", !.block = 0]
      ELSE [g EXCEPT !.pc = "awaitToolUse", !.block = j,
                     !.calls = Append(@, HandlerCall("onToolUse",
                                                     g.finalMessage.content[j]))]

\* streamConversation(params, streamHandlers) up to
\* await model.generateContent(messageText).
StreamConversation(handlers) ==
  /\ gemini.pc = "idle"
  /\ gemini' = [NoGemini EXCEPT !.pc = "awaitGenerate", !.handlers = handlers]
  /\ UNCHANGED <<webVars, mcp, auth, stream>>

\* generateContent resolves with a response of the given text and
\* function calls.
GenerateContentReply(fullResponse, functionCalls) ==
  /\ gemini.pc = "awaitGenerate"
  /\ LET message == FinalMessage(fullResponse, ToolCalls(functionCalls))
     IN  gemini' =
           ToolUseLoop([gemini EXCEPT
                          !.finalMessage = message,
                          !.calls = SyncCalls(gemini.handlers, fullResponse,
                                              message)], 0)
  /\ UNCHANGED <<webVars, mcp, auth, stream>>

\* generateContent rejects: the catch logs the error and throws it again.
GenerateContentThrow ==
  /\ gemini.pc = "awaitGenerate"
  /\ gemini' = [gemini EXCEPT !.pc = "threw", !.error = "upstream"]
  /\ UNCHANGED <<webVars, mcp, auth, stream>>

\* The onToolUse call awaited settles: the loop goes on, or the rejection
\* is thrown again by the catch.
ToolUseSettles(ok) ==
  /\ gemini.pc = "awaitToolUse"
  /\ gemini' = IF ok THEN ToolUseLoop(gemini, gemini.block)
               ELSE [gemini EXCEPT !.pc = "threw", !.error = "handler"]
  /\ UNCHANGED <<webVars, mcp, auth, stream>>

(* --------------------------- specifications --------------------------- *)

\* Requests on the registry and searches, with the AI configuration left as
\* the process starts it (provider none).
Next ==
  \/ \E u \in StoreUrls : uuids < MaxConnects /\ Connect(u)
  \/ DisconnectAll
  \/ \E q \in SearchQueries, s \in 0..MaxConnects : SearchStart(q, s)
  \/ \E a \in AllAnswers : SearchReply(a)
  \/ SearchThrow
  \/ \E a \in AllAnswers : SingleReply(a)
  \/ SingleThrow
  \/ Finish
  \/ FinishApi

Spec == Init /\ [][Next]_vars

\* Searches with the AI configuration saved between and during them.
NextAI ==
  \/ \E u \in StoreUrls : uuids < MaxConnectsAI /\ Connect(u)
  \/ DisconnectAll
  \/ \E b \in SaveBodies : SaveAIConfig(b)
  \/ \E s \in 0..MaxConnectsAI : SearchStart(w_Laptop, s)
  \/ \E a \in AllAnswers : SearchReply(a)
  \/ SearchThrow
  \/ \E a \in AllAnswers : SingleReply(a)
  \/ SingleThrow
  \/ AIImported
  \/ \E r \in AIReplies : AIReply(r)
  \/ Finish
  \/ FinishApi

SpecAI == Init /\ [][NextAI]_vars

\* Every step of the server and every store call completes; the AI
\* provider's reply is not owed.
ServerStep ==
  \/ \E a \in AllAnswers : SearchReply(a)
  \/ SearchThrow
  \/ \E a \in AllAnswers : SingleReply(a)
  \/ SingleThrow
  \/ AIImported
  \/ Finish
  \/ FinishApi

FairSpecAI == SpecAI /\ WF_vars(ServerStep)

\* translateSearchQuery applied to one query.
Expand(query) ==
  /\ pc = "idle"
  /\ pc' = "expanded"
  /\ req' = [query |-> query, storeId |-> 0]
  /\ searchTerms' = translateSearchQuery(query)
  /\ UNCHANGED <<registryVars, aiConfig, loopVars, callLog, ai, res>>
  /\ UNCHANGED <<orderVars, apiVars, peerVars>>

NextExpand == \E q \in ExpandQueries : Expand(q)

SpecExpand == Init /\ [][NextExpand]_vars

\* Orders: creation, payment and status requests, with stores connected and
\* disconnected between and during them.
NextOrders ==
  \/ \E u \in StoreUrls : uuids < MaxConnectsAI /\ Connect(u)
  \/ DisconnectAll
  \/ \E p \in OrderProductIds, s \in 0..MaxConnectsAI, q \in Quantities :
       orderUuids < MaxOrders /\ OrderStart(p, s, q)
  \/ ListProductsReply
  \/ ListProductsThrow
  \/ \E d \in Dates : CreateOrderReply(ShopifyOrder, d)
  \/ CreateOrderThrow
  \/ FinishOrder
  \/ \E t \in 1..(MaxOrders + 1), m \in PayMethods, d \in Dates : Pay(t, m, d)
  \/ \E t \in 1..(MaxOrders + 1) : Status(t)
  \/ FinishPay
  \/ FinishApi

SpecOrders == Init /\ [][NextOrders]_vars

\* Request bodies and store answers of the specification of all requests:
\* the configuration is switched between ollama and none, a search finds
\* no product, and every handler reads the same instant.
OpsSaveBodies == {b \in SaveBodies : b.provider \in {"ollama", "none"}}
OpsAnswers == {a \in AllAnswers : a = <<>>}
OpsDates == {Date(1)}

\* All requests: registry, AI configuration, searches, orders, payments.
\* One search or one order creation is in flight at a time.
NextOps ==
  \/ \E u \in StoreUrls : uuids < MaxConnectsAI /\ Connect(u)
  \/ DisconnectAll
  \/ \E b \in OpsSaveBodies : SaveAIConfig(b)
  \/ \E s \in 0..MaxConnectsAI :
       orderPc = "idle" /\ SearchStart(w_Laptop, s)
  \/ \E a \in OpsAnswers : SearchReply(a)
  \/ SearchThrow
  \/ \E a \in OpsAnswers : SingleReply(a)
  \/ SingleThrow
  \/ AIImported
  \/ \E r \in AIReplies : AIReply(r)
  \/ Finish
  \/ \E p \in OrderProductIds, s \in 0..MaxConnectsAI, q \in Quantities :
       pc = "idle" /\ orderUuids < MaxOrdersOps /\ OrderStart(p, s, q)
  \/ ListProductsReply
  \/ ListProductsThrow
  \/ \E d \in OpsDates : CreateOrderReply(ShopifyOrder, d)
  \/ CreateOrderThrow
  \/ FinishOrder
  \/ \E t \in 1..(MaxOrdersOps + 1), m \in PayMethods, d \in OpsDates :
       Pay(t, m, d)
  \/ \E t \in 1..(MaxOrdersOps + 1) : Status(t)
  \/ FinishPay
  \/ ListStores
  \/ GetAIConfig
  \/ AIStatus
  \/ \E b \in TestBodies, r \in BOOLEAN : AITest(b, r)
  \/ FinishApi

SpecOps == Init /\ [][NextOps]_vars

\* generateDemoAIResponse applied to one query, product list and store
\* count.  The queries are up to MaxWords words, among them a keyword of
\* every class and a word of none.
DemoQueries ==
  {JoinWords(ws) :
     ws \in UNION {[1..n -> {w_Laptop, w_telefon, w_yeladim, kw_gaming, w_rekhev}] :
                     n \in 0..MaxWords}}

Demo(query, products, totalStores) ==
  /\ pc = "idle"
  /\ pc' = "demoed"
  /\ req' = [query |-> query, storeId |-> 0]
  /\ res' = [NoResponse EXCEPT
               !.products = products, !.totalStores = totalStores,
               !.aiResponse =
                 Str(generateDemoAIResponse(query, products, totalStores))]
  /\ UNCHANGED <<registryVars, aiConfig, searchTerms, loopVars, callLog, ai>>
  /\ UNCHANGED <<orderVars, apiVars, peerVars>>

NextDemo ==
  \E q \in DemoQueries, a \in AllAnswers, n \in 0..MaxConnects : Demo(q, a, n)

SpecDemo == Init /\ [][NextDemo]_vars

\* One streamed response of up to MaxEvents events, read in chunks cut at
\* any byte.
EventStreams == UNION {[1..n -> StreamEvents] : n \in 0..MaxEvents}

NextStream ==
  \/ \E events \in EventStreams : HandleStreamingResponse(events)
  \/ \E n \in 1..(Len(SSELine(NoEvent)) * MaxEvents) : ReadChunk(n)
  \/ ReadDone

SpecStream == Init /\ [][NextStream]_vars

\* One streamConversation call, with any handlers given and any answer of
\* the model.
NextGemini ==
  \/ \E h \in SUBSET StreamHandlers : StreamConversation(h)
  \/ \E t \in {<<>>, <<"h", "i">>}, f \in FunctionCalls :
       GenerateContentReply(t, f)
  \/ GenerateContentThrow
  \/ \E ok \in BOOLEAN : ToolUseSettles(ok)

SpecGemini == Init /\ [][NextGemini]_vars

\* Aggregate searches alone, for a query with one dictionary match and a
\* query that contains two dictionary keys, while stores are connected.
FanoutQueries == {w_telefon, JoinWords(<<w_mutzrey, w_rekhev>>)}

NextFanout ==
  \/ \E u \in StoreUrls : uuids < MaxConnects /\ Connect(u)
  \/ \E q \in FanoutQueries : SearchStart(q, 0)
  \/ \E a \in AllAnswers : SearchReply(a)
  \/ SearchThrow
  \/ Finish
  \/ FinishApi

SpecFanout == Init /\ [][NextFanout]_vars

\* The MCP server loaded with and without credentials, and its requests.
NextMcp ==
  \/ \E u \in {"", "shop-a"}, t \in {"", "shpat"}, c \in BOOLEAN :
       McpLoad(u, t, c)
  \/ mcp.served < MaxMcpRequests /\ McpListTools
  \/ \E n \in CallNames : mcp.served < MaxMcpRequests /\ McpCallTool(n)
  \/ \E ok \in BOOLEAN : McpClientReply(ok)
  \/ \E l \in DealLists : McpFindBestDealsReply(l)
  \/ McpFinish

SpecMcp == Init /\ [][NextMcp]_vars

\* Calls of checkAuthStatus against a server that answers anything.  The
\* browser settles every request and fires every timer.
NextAuth ==
  \/ \E c \in 1..MaxAuthCalls : CheckAuthStatus(c)
  \/ \E c \in 1..MaxAuthCalls, o \in FetchOutcomes : FetchSettles(c, o)
  \/ \E c \in 1..MaxAuthCalls : TimerFires(c)

FairSpecAuth ==
  /\ Init /\ [][NextAuth]_vars
  /\ \A c \in 1..MaxAuthCalls :
       /\ WF_vars(\E o \in FetchOutcomes : FetchSettles(c, o))
       /\ WF_vars(TimerFires(c))

\* The registry: stores connected through both endpoints, listed and
\* disconnected.
NextRegistry ==
  \/ \E u \in StoreUrls : uuids < MaxConnects /\ Connect(u)
  \/ \E u \in StoreUrls : uuids < MaxConnects /\ LegacyConnect(u)
  \/ DisconnectAll
  \/ ListStores
  \/ FinishApi

SpecRegistry == Init /\ [][NextRegistry]_vars

\* Credentials of one to MaxKeyLen characters, and the bodies that save one
\* for a provider.
Credentials == UNION {[1..n -> {"a", "b"}] : n \in 1..MaxKeyLen}
CredentialBodies ==
  {[EmptyBody EXCEPT !.provider = "anthropic", !.anthropicKey = k] :
     k \in Credentials}
  \cup {[EmptyBody EXCEPT !.provider = "deepseek", !.deepseekKey = k] :
          k \in {c \in Credentials : Len(c) <= 2}}

\* The AI configuration saved and read.
NextConfig ==
  \/ \E b \in CredentialBodies : SaveAIConfig(b)
  \/ GetAIConfig
  \/ PostBackAIConfig
  \/ AIStatus
  \/ FinishApi

SpecConfig == Init /\ [][NextConfig]_vars

(* ------------------------------ claims -------------------------------- *)

\* The response of an aggregate search (no storeId given) has been sent.
AggregateResponded == pc = "responded" /\ req.storeId = 0

\* The product ids the shops hold.
ProductIds ==
  UNION {{Catalog(url)[i].id : i \in 1..Len(Catalog(url))} : url \in StoreUrls}

\* The stores called in this request, and each store's calls in call order.
StoresCalled == {callLog[i].storeId : i \in 1..Len(callLog)}
CallsOf(id) == SelectSeq(callLog, LAMBDA e : e.storeId = id)
AllOk(id) == \A i \in 1..Len(callLog) : callLog[i].storeId = id => callLog[i].ok
AllFailed(id) ==
  \A i \in 1..Len(callLog) : callLog[i].storeId = id => ~callLog[i].ok

RECURSIVE Flatten(_)
Flatten(answers) ==
  IF answers = <<>> THEN <<>> ELSE Head(answers) \o Flatten(Tail(answers))

\* The products a store answered over all its calls, each id at its first
\* occurrence only, tagged with the store's id.
Contribution(id) ==
  LET calls == CallsOf(id)
      all   == Flatten([i \in 1..Len(calls) |-> calls[i].products])
      first == {i \in 1..Len(all) : \A j \in 1..(i - 1) : all[j].id # all[i].id}
      kept  == Pick(all, first)
  IN  [i \in 1..Len(kept) |->
         [id |-> kept[i].id, price |-> kept[i].price, storeId |-> id]]

\* The price a product is ranked by: a missing or non-numeric price is 0.
PriceKey(p) ==
  LET n == parseFloat(PriceOrZero(p.price)) IN IF n.nan THEN 0 ELSE n.v

NumericOrMissing(p) == ~parseFloat(PriceOrZero(p.price)).nan

NonDecreasing(products) ==
  \A i, j \in 1..Len(products) :
    i < j => PriceKey(products[i]) <= PriceKey(products[j])

SameElements(s, t) ==
  /\ Len(s) = Len(t)
  /\ \A i \in 1..Len(s) :
       Cardinality({j \in 1..Len(s) : s[j] = s[i]})
         = Cardinality({j \in 1..Len(t) : t[j] = s[i]})

C2_SortedByParsedPrice ==
  AggregateResponded /\ res.status = 200 => NonDecreasing(res.products)

\* C3: in the response of an aggregate search no product id appears twice
\* with the same storeId, also when several terms sent to one store returned
\* overlapping ids.
C3_DedupWithinStore ==
  AggregateResponded =>
    \A i, j \in 1..Len(res.products) :
      (i # j /\ res.products[i].storeId = res.products[j].storeId)
        => res.products[i].id # res.products[j].id

\* Two calls to the same store, for different terms, both answered product k.
OverlappingAnswers(id, k) ==
  \E i, j \in 1..Len(callLog) :
    /\ i < j
    /\ callLog[i].storeId = id /\ callLog[j].storeId = id
    /\ callLog[i].term # callLog[j].term
    /\ \E m \in 1..Len(callLog[i].products) : callLog[i].products[m].id = k
    /\ \E m \in 1..Len(callLog[j].products) : callLog[j].products[m].id = k

C3_Witness ==
  /\ AggregateResponded
  /\ \E id \in StoresCalled, k \in ProductIds :
       /\ OverlappingAnswers(id, k)
       /\ Cardinality({i \in 1..Len(res.products) :
              res.products[i].storeId = id /\ res.products[i].id = k}) = 1

\* Store id answered product k in some call of this request.
Answered(id, k) ==
  \E i \in 1..Len(callLog) :
    /\ callLog[i].storeId = id /\ callLog[i].ok
    /\ \E m \in 1..Len(callLog[i].products) : callLog[i].products[m].id = k

Occurrences(id, k) ==
  Cardinality({i \in 1..Len(res.products) :
     res.products[i].storeId = id /\ res.products[i].id = k})

\* C4: when two different stores both answered a product with the same id,
\* the response of the aggregate search holds both entries, one under each
\* store's id.
C4_NoDedupAcrossStores ==
  AggregateResponded =>
    \A a, b \in StoresCalled : \A k \in ProductIds :
      (a # b /\ Answered(a, k) /\ Answered(b, k))
        => Occurrences(a, k) = 1 /\ Occurrences(b, k) = 1

C4_Witness ==
  /\ AggregateResponded
  /\ Answered(1, 1) /\ Answered(2, 1)
  /\ Occurrences(1, 1) = 1 /\ Occurrences(2, 1) = 1

\* C5: a failed searchProducts call removes only its own contribution: in the
\* response of an aggregate search every store the registry holds has been
\* called once for every term, in term order, whatever calls failed, and
\* every product of every call that succeeded is in the product list under
\* its store's id.
C5_FailureIsLocal ==
  AggregateResponded =>
    /\ \A n \in 1..Len(storeConnections) :
         LET calls == CallsOf(storeConnections[n].id)
         IN  /\ Len(calls) = Len(searchTerms)
             /\ \A i \in 1..Len(calls) : calls[i].term = i
    /\ \A i \in 1..Len(callLog) :
         callLog[i].ok =>
           \A m \in 1..Len(callLog[i].products) :
             Occurrences(callLog[i].storeId, callLog[i].products[m].id) = 1

\* The first term failed for store 1; the second term of store 1 and a call
\* to store 2 then brought products, which are in the response.
C5_Witness ==
  /\ AggregateResponded
  /\ Len(callLog) = 4
  /\ callLog[1].storeId = 1 /\ ~callLog[1].ok
  /\ callLog[2].storeId = 1 /\ callLog[2].ok /\ callLog[2].products # <<>>
  /\ callLog[3].storeId = 2 /\ callLog[3].ok /\ callLog[3].products # <<>>
  /\ Len(res.products) >= 2

\* A searchProducts call or the AI provider call of this request failed.
UpstreamFailed ==
  \/ \E i \in 1..Len(callLog) : ~callLog[i].ok
  \/ ai.reply \in {"throw", "malformed"}

\* C6: no search request, aggregate or single-store, answers with an error
\* response because an upstream call failed.
C6_NoErrorOnUpstreamFailure ==
  (pc = "responded" /\ UpstreamFailed) => res.status = 200

\* C7: when the call to a configured provider throws or returns a malformed
\* body, the aiResponse of the search response is a non-empty string.
C7_FallbackAfterProviderFailure ==
  (AggregateResponded /\ ai.reply \in {"throw", "malformed"})
    => res.aiResponse.t = "string" /\ res.aiResponse.s # <<>>

\* The field of aiConfig that holds the credential of each provider.
CredentialOf(cfg) ==
  IF cfg.provider = "anthropic" THEN cfg.anthropicKey
  ELSE IF cfg.provider = "openai" THEN cfg.openaiKey
  ELSE IF cfg.provider = "gemini-free" THEN cfg.geminiFreeKey
  ELSE IF cfg.provider = "huggingface" THEN cfg.huggingfaceKey
  ELSE IF cfg.provider = "ollama" THEN cfg.ollamaUrl
  ELSE IF cfg.provider = "deepseek" THEN cfg.deepseekKey
  ELSE <<>>

NotConfigured(cfg) == cfg.provider = "none" \/ CredentialOf(cfg) = <<>>

\* C8: when generateAIResponse finds the provider none, or no credential
\* stored for the selected provider, it sends no provider request and the
\* answer is the demo template for the query, a non-empty string.
C8_DemoWithoutProviderCall ==
  (AggregateResponded /\ ai.called /\ NotConfigured(ai.config)) =>
    /\ ai.calls = 0
    /\ ai.endpoint = ""
    /\ res.aiResponse.t = "string"
    /\ Len(res.aiResponse.s) > 0
    /\ res.aiResponse.s =
         generateDemoAIResponse(req.query, res.products, res.totalStores)

\* A provider is selected and has no credential: the demo answer is given.
C8_Witness ==
  /\ AggregateResponded
  /\ ai.called
  /\ ai.config.provider = "huggingface"
  /\ ai.config.huggingfaceKey = <<>>
  /\ ai.calls = 0
  /\ res.aiResponse.t = "string"
  /\ Len(res.aiResponse.s) > 0

\* C9: an aggregate search that waits for the AI provider eventually sends
\* its response, also when the provider never answers.
C9_RespondsDespiteSilentProvider ==
  (pc = "awaitAI") ~> (pc = "responded")

\* C10: translateSearchQuery returns at least one term, the first is the
\* query verbatim, and the empty query yields the empty string alone.
C10_VerbatimQueryFirst ==
  pc = "expanded" =>
    /\ Len(searchTerms) >= 1
    /\ searchTerms[1] = req.query
    /\ (req.query = <<>> => searchTerms = << <<>> >>)

\* A query with an upper-case letter and a dictionary match.
C10_Witness ==
  /\ pc = "expanded"
  /\ Len(searchTerms) > 1
  /\ \E i \in 1..Len(req.query) : req.query[i] = "L"
  /\ searchTerms[1] = req.query

\* C11: for a query that contains dictionary keys, the expansion of every
\* matching key occurs exactly once among the search terms, also when two
\* matching keys have the same expansion.
C11_ExpansionOnce ==
  pc = "expanded" =>
    \A k \in 1..Len(translations) :
      Includes(toLowerCase(req.query), toLowerCase(translations[k].hebrew)) =>
        Cardinality({i \in 1..Len(searchTerms) :
                       searchTerms[i] = translations[k].english}) = 1

\* C12: a search request that designates a storeId makes exactly one
\* searchProducts call, to that store and with the raw query, and none to
\* another store; when the storeId is not in the registry it answers 404
\* and makes no call.
C12_SingleStoreOneCall ==
  req.storeId # 0 =>
    /\ pc \in {"awaitSingle", "responded"}
    /\ pc = "awaitSingle" => callLog = <<>> /\ store.id = req.storeId
    /\ pc = "responded" =>
         IF res.status = 404
         THEN callLog = <<>> /\ ~HasStore(req.storeId)
         ELSE /\ Len(callLog) = 1
              /\ callLog[1].storeId = req.storeId
              /\ callLog[1].sent = req.query
              /\ store.id = req.storeId

\* The designated store answered a query that has a dictionary expansion,
\* while another store is registered.
C12_Witness ==
  /\ pc = "responded"
  /\ req.storeId # 0
  /\ res.status = 200
  /\ Len(callLog) = 1
  /\ Len(translateSearchQuery(req.query)) > 1
  /\ \E i \in 1..Len(storeConnections) : storeConnections[i].id # req.storeId

(* ------------------------------- orders ------------------------------- *)

\* The /api/orders/create handler leaves its first step, or sends its
\* response, in this step.
OrderStarts == orderPc = "idle" /\ orderPc' # "idle"
OrderResponds == orderPc # "responded" /\ orderPc' = "responded"

\* The methods the handler has called on a store's client.
MethodsCalled(calls) == {calls[i].method : i \in 1..Len(calls)}

\* C13: an order-creation request whose storeId is not in the registry
\* answers 404, calls no store and leaves the order tracker as it is.
C13_UnknownStore ==
  [][(OrderStarts /\ ~HasStore(orderReq'.storeId)) =>
       /\ orderPc' = "responded"
       /\ orderRes'.status = 404
       /\ orderCalls' = <<>>
       /\ orderTracker' = orderTracker
       /\ orderUuids' = orderUuids]_vars

\* The 404 of an order for a store that is not registered, with an order
\* of an earlier request in the tracker.
C13_Witness ==
  /\ orderPc = "responded"
  /\ orderRes.status = 404
  /\ orderRes.error = "Store not found"
  /\ orderReq.storeId # 0
  /\ orderCalls = <<>>
  /\ orderTracker # <<>>

\* The call awaited (the last of the log) and its outcome after the step.
CallSettles(method, outcome) ==
  /\ orderCalls # <<>>
  /\ orderCalls[Len(orderCalls)].method = method
  /\ orderCalls[Len(orderCalls)].outcome = "pending"
  /\ Len(orderCalls') >= Len(orderCalls)
  /\ orderCalls'[Len(orderCalls)].outcome = outcome

\* C14: when createOrder fails after the store and the product were found,
\* the request answers an error and the tracker is as before: no record
\* and no tracking id for the attempt.
C14_CreateOrderFails ==
  [][CallSettles("createOrder", "rejected") =>
       /\ orderPc' = "responded"
       /\ orderRes'.status >= 400
       /\ orderRes'.error # ""
       /\ orderRes'.trackingId = 0
       /\ orderTracker' = orderTracker
       /\ orderUuids' = orderUuids]_vars

\* The error response after a rejected createOrder, listProducts having
\* resolved.
C14_Witness ==
  /\ orderPc = "responded"
  /\ Len(orderCalls) = 2
  /\ orderCalls[1].outcome = "resolved"
  /\ orderCalls[2].method = "createOrder"
  /\ orderCalls[2].outcome = "rejected"
  /\ orderRes.status = 400

\* The product of that id in the listing of a shop has a first variant with
\* an id.
HasVariant(url, productId) ==
  \E i \in 1..Len(Listing(url)) :
    /\ Listing(url)[i].id = productId
    /\ Listing(url)[i].variants # <<>>
    /\ Listing(url)[i].variants[1].id # 0

\* C15: when the product id is not in the store's listing, or the product
\* found has no variant, the request answers an error, createOrder is not
\* called and the tracker is as before.
C15_NoProductNoVariant ==
  [][(CallSettles("listProducts", "resolved")
        /\ ~HasVariant(orderStore.url, orderReq.productId)) =>
       /\ orderPc' = "responded"
       /\ orderRes'.status >= 400
       /\ "createOrder" \notin MethodsCalled(orderCalls')
       /\ orderTracker' = orderTracker
       /\ orderUuids' = orderUuids]_vars

\* The answer for a product the listing holds without a variant.
C15_Witness ==
  /\ orderPc = "responded"
  /\ orderRes.error = "No variants available"
  /\ MethodsCalled(orderCalls) = {"listProducts"}
  /\ orderTracker # <<>>

\* null or undefined
Nullish(v) == v = Undefined \/ v = Null

\* C16: a successful order creation adds one record to the tracker, under
\* a tracking id that was no key before, with status pending_payment and
\* no paidAt; the records already there are unchanged.
C16_OneFreshRecord ==
  [][(OrderResponds /\ orderRes'.status = 200) =>
       LET t == orderRes'.trackingId
       IN  /\ t \notin DOMAIN orderTracker
           /\ DOMAIN orderTracker' = DOMAIN orderTracker \cup {t}
           /\ orderTracker'[t].status = "pending_payment"
           /\ orderTracker'[t].paidAt = Undefined
           /\ \A k \in DOMAIN orderTracker :
                orderTracker'[k] = orderTracker[k]]_vars

\* The success response of a second order, the first one being paid.
C16_Witness ==
  /\ orderPc = "responded"
  /\ orderRes.status = 200
  /\ Cardinality(DOMAIN orderTracker) = 2
  /\ orderTracker[orderRes.trackingId].status = "pending_payment"
  /\ \E k \in DOMAIN orderTracker : orderTracker[k].status = "paid"

\* A pay request is served in this step, for a record of that status.
PayServed(was) ==
  /\ payRes = NoPayRes
  /\ payRes'.op = "pay"
  /\ HasOrder(payRes'.trackingId)
  /\ orderTracker[payRes'.trackingId].status = was

\* The step changes no record but the one under that tracking id, and adds
\* and removes none.
OnlyRecordChanged(trackingId) ==
  /\ DOMAIN orderTracker' = DOMAIN orderTracker
  /\ \A k \in DOMAIN orderTracker \ {trackingId} :
       orderTracker'[k] = orderTracker[k]

\* C17: a pay request on a record with status pending_payment makes its
\* status paid and its paidAt a timestamp, and changes no other record.
C17_PayPending ==
  [][PayServed("pending_payment") =>
       LET t == payRes'.trackingId
       IN  /\ orderTracker'[t].status = "paid"
           /\ ~Nullish(orderTracker'[t].paidAt)
           /\ orderTracker'[t].paidAt \in Dates
           /\ OnlyRecordChanged(t)]_vars

\* The response of the first payment of one of two orders.
C17_Witness ==
  /\ payRes.op = "pay"
  /\ payRes.status = 200
  /\ payRes.was = "pending_payment"
  /\ orderTracker[payRes.trackingId].status = "paid"
  /\ \E k \in DOMAIN orderTracker : orderTracker[k].status = "pending_payment"

\* C18: a pay request or a status request on a tracking id that is not in
\* the tracker answers 404 and leaves the tracker as it is.
C18_UnknownTrackingId ==
  [][(payRes = NoPayRes /\ payRes' # NoPayRes
        /\ ~HasOrder(payRes'.trackingId)) =>
       /\ payRes'.status = 404
       /\ payRes'.order = Undefined
       /\ orderTracker' = orderTracker]_vars

\* The 404 of a pay request for an id the tracker lacks, with an order in
\* the tracker.
C18_Witness ==
  /\ payRes.op = "pay"
  /\ payRes.status = 404
  /\ ~HasOrder(payRes.trackingId)
  /\ orderTracker # <<>>

\* C19: a pay request on a record that is paid already is accepted, the
\* record stays paid with a timestamp in paidAt, and nothing but paidAt and
\* the payment method of that record is rewritten.
C19_PayAgain ==
  [][PayServed("paid") =>
       LET t == payRes'.trackingId
       IN  /\ payRes'.status = 200
           /\ orderTracker'[t].status = "paid"
           /\ ~Nullish(orderTracker'[t].paidAt)
           /\ [orderTracker'[t] EXCEPT
                 !.paidAt = orderTracker[t].paidAt,
                 !.paymentMethod = orderTracker[t].paymentMethod]
                = orderTracker[t]
           /\ OnlyRecordChanged(t)]_vars

\* The response of a payment with a card, of a record that this request
\* found paid.
C19_Witness ==
  /\ payRes.op = "pay"
  /\ payRes.status = 200
  /\ payRes.was = "paid"
  /\ orderTracker[payRes.trackingId].status = "paid"
  /\ orderTracker[payRes.trackingId].paymentMethod = Str(<<"card">>)

\* C20: through every step of every request (connect, disconnect-all,
\* search, order creation, pay, status, AI configuration) a record of the
\* tracker stays under its tracking id, the same order with the same
\* creation data, and a status paid does not go back to pending_payment.
C20_RecordsStay ==
  [][\A t \in DOMAIN orderTracker :
       /\ t \in DOMAIN orderTracker'
       /\ [orderTracker'[t] EXCEPT
             !.status = orderTracker[t].status,
             !.paidAt = orderTracker[t].paidAt,
             !.paymentMethod = orderTracker[t].paymentMethod]
            = orderTracker[t]
       /\ orderTracker[t].status = "paid" =>
            orderTracker'[t].status = "paid"]_vars

\* A paid order is still in the tracker after the stores were disconnected
\* and the AI configuration was saved, as a search is answered.
C20_Witness ==
  /\ \E t \in DOMAIN orderTracker : orderTracker[t].status = "paid"
  /\ storeConnections = <<>>
  /\ aiConfig # InitialAIConfig
  /\ pc = "responded"

(* ------------------- registry and AI configuration -------------------- *)

\* C21: every product of an aggregate search response has a storeId that
\* is in the registry when the response is built: what a store removed by
\* disconnect-all during the search had contributed is dropped.
C21_ProductsOfLiveStores ==
  (AggregateResponded /\ res.status = 200) =>
    \A i \in 1..Len(res.products) : HasStore(res.products[i].storeId)

\* The credentials the configuration holds.
StoredCredentials(cfg) ==
  {cfg.anthropicKey, cfg.openaiKey, cfg.geminiFreeKey, cfg.huggingfaceKey,
   cfg.deepseekKey} \ {<<>>}

\* The credential fields of the answer to a configuration read (the answer
\* to a save has none).
CredentialFields(response) ==
  IF response.op = "config"
  THEN {response.body.anthropicKey, response.body.openaiKey,
        response.body.geminiFreeKey, response.body.huggingfaceKey,
        response.body.deepseekKey}
  ELSE {}

\* C22: no answer of the configuration read and save endpoints contains a
\* stored credential in full, whatever its length and its provider.
C22_CredentialsMasked ==
  apiRes.op \in {"config", "save"} =>
    \A key \in StoredCredentials(aiConfig) :
      \A field \in CredentialFields(apiRes) : ~Includes(field, key)

\* C23: the process-wide AI configuration changes in the steps of the
\* save-configuration request only; search, AI test (also with a provider,
\* a model and a key in its body), AI status, connect, disconnect and order
\* requests leave it as it is.
C23_OnlySaveChangesAIConfig ==
  [][aiConfig' # aiConfig =>
       /\ apiRes = NoApiRes
       /\ apiRes'.op = "save"
       /\ apiRes'.body.provider = aiConfig'.provider
       /\ apiRes'.body.model = aiConfig'.model]_vars

\* A test request with a provider, a model and a key has succeeded, and the
\* configuration is the one the process started with.
C23_Witness ==
  /\ apiRes.op = "test"
  /\ apiRes.status = 200
  /\ aiConfig = InitialAIConfig
  /\ orderTracker # <<>>

\* A connect request is answered in this step.
ConnectAnswered == apiRes = NoApiRes /\ apiRes'.op = "connect"

\* The ids of the registry's entries.
StoreIds(entries) == {entries[i].id : i \in 1..Len(entries)}

\* C24: a connect request whose validation call fails registers the store
\* all the same: the registry gains the entry and the answer is a success
\* with its storeId, as when the validation call succeeds.
C24_ConnectDespiteFailedValidation ==
  [][ConnectAnswered =>
       /\ apiRes'.status = 200
       /\ apiRes'.body.success
       /\ Len(storeConnections') = Len(storeConnections) + 1
       /\ storeConnections'[Len(storeConnections')].id = apiRes'.body.storeId
       /\ storeConnections'[Len(storeConnections')].token = "shpat"]_vars

\* The answer of a connect request whose validation call failed, with the
\* store in the registry.
C24_Witness ==
  /\ apiRes.op = "connect"
  /\ ~apiRes.validated
  /\ apiRes.status = 200
  /\ HasStore(apiRes.body.storeId)

ViewsListed(response) ==
  IF response.op \in {"stores", "connect"}
  THEN {response.body.stores[i] : i \in 1..Len(response.body.stores)}
  ELSE {}

\* C26: no store listing sent to a caller (the list-stores answer and the
\* list in the connect answer) holds the access token of a registered store.
C26_NoTokenInListings ==
  \A view \in ViewsListed(apiRes) :
    /\ "token" \notin DOMAIN view
    /\ \A i \in 1..Len(storeConnections) :
         storeConnections[i].token \notin {view.name, view.url}

\* A list-stores answer for a registry of two stores.
C26_Witness ==
  /\ apiRes.op = "stores"
  /\ Len(apiRes.body.stores) = 2
  /\ \A i \in 1..Len(storeConnections) : storeConnections[i].token = "shpat"

\* C27: a store entry is not modified after connect has created it: a step
\* that changes the registry either is the answer of a connect request and
\* appends one entry, or removes all entries at once and belongs to no
\* search, order, payment, listing or AI request.
C27_EntriesImmutable ==
  [][storeConnections' # storeConnections =>
       \/ /\ ConnectAnswered
          /\ \E e \in {storeConnections'[i] : i \in 1..Len(storeConnections')} :
               storeConnections' = Append(storeConnections, e)
       \/ /\ storeConnections' = <<>>
          /\ UNCHANGED <<aiConfig, pc, orderPc, orderTracker, payRes,
                         apiRes>>]_vars

\* The entry of a store for which an order was created and paid is in the
\* registry as connect left it, a search having been answered and the AI
\* configuration saved.
C27_Witness ==
  /\ \E t \in DOMAIN orderTracker :
       /\ orderTracker[t].status = "paid"
       /\ HasStore(orderTracker[t].storeId)
       /\ GetStore(orderTracker[t].storeId).token = "shpat"
  /\ pc = "responded"
  /\ aiConfig # InitialAIConfig

\* C28: a list-stores request answers what the list-stores request before
\* it answered when no connect and no disconnect-all was served between the
\* two, whatever other requests were.
C28_ListStoresRepeatable ==
  [][(apiRes = NoApiRes /\ apiRes'.op = "stores" /\ lastList.valid) =>
       apiRes'.body = lastList.body]_vars

\* The answer of a repeated list-stores request, with a store, an order and
\* a saved AI configuration.
C28_Witness ==
  /\ apiRes.op = "stores"
  /\ apiRes.again
  /\ Len(apiRes.body.stores) >= 1
  /\ orderTracker # <<>>
  /\ aiConfig # InitialAIConfig

(* ----------------------------- MCP server ----------------------------- *)

\* C29: a server loaded without store credentials has no client; then every
\* tool call, whatever its name, fails with the error that asks for the
\* configuration before any method of the client is called, the tool
\* listing is empty, and the null client is never dereferenced.
C29_UnconfiguredServer ==
  /\ (mcp.loaded /\ (mcp.STORE_URL = "" \/ mcp.ACCESS_TOKEN = "")) =>
       mcp.shopifyClient = "null"
  /\ (mcp.loaded /\ mcp.shopifyClient = "null") =>
       /\ mcp.clientCalls = <<>>
       /\ mcp.pc # "awaitClient"
       /\ (mcp.pc = "responded" /\ mcp.method = "tools/call") =>
            /\ mcp.res.kind = "error"
            /\ mcp.res.message = "Shopify client not initialized"
       /\ (mcp.pc = "responded" /\ mcp.method = "tools/list") =>
            /\ mcp.res.kind = "result"
            /\ mcp.res.tools = {}

\* A call of create_order answered by a server that was loaded without
\* access token, after an earlier request.
C29_Witness ==
  /\ mcp.loaded
  /\ mcp.ACCESS_TOKEN = ""
  /\ mcp.pc = "responded"
  /\ mcp.name = "create_order"
  /\ mcp.res.message = "Shopify client not initialized"
  /\ mcp.served > 0

(* ------------------------ authorization polling ----------------------- *)

\* C30: one call of checkAuthStatus issues at most maxAttempts (10)
\* token-status requests, whatever the server answers, and a call that has
\* started comes to a stop: it polls no more.
C30_PollingBounded ==
  /\ [](\A c \in 1..MaxAuthCalls :
          /\ auth[c].fetches <= maxAttempts
          /\ auth[c].fetches = auth[c].attemptCount)
  /\ \A c \in 1..MaxAuthCalls :
       (auth[c].pc # "idle") ~> [](auth[c].pc = "stopped")

\* A call that stopped after its tenth request, without any message: the
\* answers were pending or failures all along.
C30_Witness ==
  /\ auth[1].pc = "stopped"
  /\ auth[1].fetches = maxAttempts
  /\ auth[1].messages = 0

(* ------------------------------ deal score ---------------------------- *)

\* The deals of an answered find_best_deals call.
Deals == mcp.res.deals
DealsAnswered ==
  /\ mcp.pc = "responded"
  /\ mcp.name = "find_best_deals"
  /\ mcp.res.kind = "result"

\* a >= b and a > b for fractions with positive denominators.
ScoreGeq(a, b) == a.num * b.den >= b.num * a.den
ScoreGt(a, b) == a.num * b.den > b.num * a.den

CallPositions(id) == {i \in 1..Len(callLog) : callLog[i].storeId = id}

\* C32: in an aggregate search every registered store receives each
\* expanded term in exactly one searchProducts call, the calls to one store
\* follow the order of the expanded terms, and no call is made again after
\* it failed.
C32_OneCallPerStoreAndTerm ==
  AggregateResponded =>
    \A k \in 1..Len(storeConnections) :
      LET id == storeConnections[k].id IN
      /\ \A t \in 1..Len(searchTerms) :
           Cardinality({i \in CallPositions(id) :
                          callLog[i].sent = searchTerms[t]}) = 1
      /\ \A i, j \in CallPositions(id) :
           i < j => callLog[i].term < callLog[j].term

\* The same, for the entries of the list of expanded terms instead of the
\* terms: every store is called once per entry, in the order of the list.
C32_OneCallPerEntry ==
  AggregateResponded =>
    \A k \in 1..Len(storeConnections) :
      LET id == storeConnections[k].id IN
      /\ \A t \in 1..Len(searchTerms) :
           Cardinality({i \in CallPositions(id) : callLog[i].term = t}) = 1
      /\ \A i, j \in CallPositions(id) :
           i < j => callLog[i].term < callLog[j].term

(* ---------------------------- demo template --------------------------- *)

\* The keywords of a class of the demo table, and whether a query contains
\* one of them.
ClassKeywords(class) ==
  CASE class = "laptop"   -> {kw_laptop_he, kw_laptop}
    [] class = "phone"    -> {kw_phone_he, kw_phone, kw_smartphone_he}
    [] class = "children" -> {kw_child_he, kw_children, kw_baby_he}
    [] class = "gaming"   -> {kw_gaming_he, kw_gaming, kw_ozney_he}
MatchesClass(query, class) ==
  \E k \in ClassKeywords(class) : Includes(toLowerCase(query), k)

\* The opening fragment of the template of a class.
TemplateHead(class) ==
  CASE class = "laptop"   -> "[laptop-1]"
    [] class = "phone"    -> "[phone-1]"
    [] class = "children" -> "[children-1]"
    [] class = "gaming"   -> "[gaming-1]"
    [] class = "default"  -> "[default-1]"

\* C33: the demo response of a query is the template of the first class, in
\* the order laptop, phone, children, gaming, of which the query contains a
\* keyword, and the default template only when it contains none.
C33_TemplatePriority ==
  pc = "demoed" =>
    res.aiResponse.s[1] =
      TemplateHead(
        IF MatchesClass(req.query, "laptop") THEN "laptop"
        ELSE IF MatchesClass(req.query, "phone") THEN "phone"
        ELSE IF MatchesClass(req.query, "children") THEN "children"
        ELSE IF MatchesClass(req.query, "gaming") THEN "gaming"
        ELSE "default")

\* A query with keywords of the phone, the children and the gaming class
\* answered with the phone template.
C33_Witness ==
  /\ pc = "demoed"
  /\ MatchesClass(req.query, "phone")
  /\ MatchesClass(req.query, "children")
  /\ MatchesClass(req.query, "gaming")
  /\ ~MatchesClass(req.query, "laptop")
  /\ res.aiResponse.s[1] = "[phone-1]"

(* ----------------- AI dispatcher and configuration -------------------- *)

\* C34: whatever save-configuration requests are served while
\* generateAIResponse is in flight, the credential sent in a provider call
\* is the one stored for the provider whose endpoint is called, and the call
\* ends with a string or null, never with undefined.
C34_KeyOfCalledProvider ==
  [][/\ (pc = "awaitImport" /\ pc' = "awaitAI") =>
          ai'.currentApiKey =
            CurrentApiKey([aiConfig EXCEPT !.provider = ai'.endpoint])
     /\ (pc \in {"awaitImport", "awaitAI"} /\ pc' = "responded") =>
          res'.aiResponse.t \in {"string", "null"}]_vars

\* C35: posting the masked configuration that was just read back unchanged
\* leaves the provider, the model and every stored credential as they were:
\* a value that starts with the mask prefix overwrites no stored key.
C35_PostBackChangesNothing ==
  apiRes.op = "postback" => aiConfig = apiRes.was

\* The configuration posted back while a key of more than four characters
\* and a key of two characters are stored.
C35_Witness ==
  /\ apiRes.op = "postback"
  /\ Len(aiConfig.anthropicKey) > 4
  /\ Len(aiConfig.deepseekKey) = 2

(* ---------------------------- MCP error codes ------------------------- *)

\* C36: a call of a configured server whose name is none of the eight tools
\* is answered with the error code MethodNotFound, and a known tool whose
\* store operation fails with the error code InternalError.
C36_ErrorCodes ==
  (mcp.pc = "responded" /\ mcp.method = "tools/call"
     /\ mcp.shopifyClient # "null" /\ mcp.res.kind = "error") =>
    mcp.res.code =
      IF mcp.name \in ToolNames THEN "InternalError" ELSE "MethodNotFound"

(* -------------------------- streamed response ------------------------- *)

\* The texts of the content_block_delta events of a stream, concatenated in
\* stream order.
RECURSIVE DeltaTexts(_)
DeltaTexts(events) ==
  IF events = <<>> THEN <<>>
  ELSE (IF Head(events).type = "content_block_delta"
        THEN Head(events).text ELSE <<>>) \o DeltaTexts(Tail(events))

\* The products displayed for a stream: at every message_stop, those of the
\* last products event before it.
RECURSIVE Displays(_, _)
Displays(events, products) ==
  IF events = <<>> THEN <<>>
  ELSE LET e == Head(events) IN
       IF e.type = "products" THEN Displays(Tail(events), e.products)
       ELSE IF e.type = "message_stop" /\ products # <<>>
       THEN <<products>> \o Displays(Tail(events), products)
       ELSE Displays(Tail(events), products)

\* C37: however the bytes of the stream are cut into chunks, the assistant
\* message shown when the stream ends is the concatenation of the texts of
\* its content_block_delta events, and the products of a products event
\* are displayed once at message_stop.
C37_MessageIsConcatenation ==
  stream.pc = "done" =>
    /\ stream.assistantMessage = DeltaTexts(stream.events)
    /\ stream.displayed = Displays(stream.events, <<>>)

(* ---------------------------- Gemini service -------------------------- *)

\* The blocks of a kind in the content of the final message, and the calls
\* of a handler, in order.
BlocksOf(type) ==
  SelectSeq(gemini.finalMessage.content, LAMBDA b : b.type = type)
CallsTo(handler) == SelectSeq(gemini.calls, LAMBDA c : c.handler = handler)
ArgsOf(calls) == [i \in 1..Len(calls) |-> calls[i].arg]

\* The handlers are called in the order onText, onMessage, onContentBlock,
\* onToolUse.
HandlerRank(handler) ==
  CASE handler = "onText"         -> 1
    [] handler = "onMessage"      -> 2
    [] handler = "onContentBlock" -> 3
    [] handler = "onToolUse"      -> 4

\* C38: the final message returned has stop_reason tool_use exactly when
\* its content holds a tool_use block, and end_turn otherwise; the handlers
\* given are called in the order onText, onMessage, onContentBlock (once
\* per block, in content order), onToolUse (once per tool_use block, in
\* content order, one awaited before the next is called); and when the
\* model's call fails the error is thrown again and no handler is called.
C38_FinalMessageAndHandlers ==
  /\ gemini.pc = "returned" =>
       /\ gemini.finalMessage.stop_reason =
            IF Len(BlocksOf("tool_use")) > 0 THEN "tool_use" ELSE "end_turn"
       /\ Len(CallsTo("onText")) =
            IF "onText" \in gemini.handlers /\ Len(BlocksOf("text")) > 0
            THEN 1 ELSE 0
       /\ Len(CallsTo("onMessage")) =
            IF "onMessage" \in gemini.handlers THEN 1 ELSE 0
       /\ ArgsOf(CallsTo("onMessage")) \in {<<>>, <<gemini.finalMessage>>}
       /\ ArgsOf(CallsTo("onContentBlock")) =
            IF "onContentBlock" \in gemini.handlers
            THEN gemini.finalMessage.content ELSE <<>>
       /\ ArgsOf(CallsTo("onToolUse")) =
            IF "onToolUse" \in gemini.handlers
            THEN BlocksOf("tool_use") ELSE <<>>
  /\ \A i, j \in 1..Len(gemini.calls) :
       i < j => HandlerRank(gemini.calls[i].handler)
                  <= HandlerRank(gemini.calls[j].handler)
  /\ gemini.pc = "awaitToolUse" =>
       /\ gemini.calls[Len(gemini.calls)].arg =
            gemini.finalMessage.content[gemini.block]
       /\ ArgsOf(CallsTo("onToolUse")) =
            SelectSeq(SubSeq(gemini.finalMessage.content, 1, gemini.block),
                      LAMBDA b : b.type = "tool_use")
  /\ gemini.error = "upstream" =>
       gemini.pc = "threw" /\ gemini.calls = <<>>

\* A message of a text block and two tool_use blocks returned to a caller
\* that gave all four handlers.
C38_Witness ==
  /\ gemini.pc = "returned"
  /\ gemini.handlers = StreamHandlers
  /\ Len(BlocksOf("text")) = 1
  /\ Len(BlocksOf("tool_use")) = 2
  /\ Len(gemini.calls) = 7

(* --------------------- outcome of the authorization ------------------- *)

\* C39: once a token-status answer is authorized, or is neither authorized
\* nor pending (final), the call has stopped and has added exactly one
\* assistant message; a further request is awaited or under way only after
\* a pending answer or a failed request, and then no message has been added.
C39_FinalAnswerStopsPolling ==
  \A c \in 1..MaxAuthCalls :
    /\ auth[c].final => auth[c].pc = "stopped" /\ auth[c].messages = 1
    /\ auth[c].pc \in {"timer", "fetching"} => ~auth[c].final
    /\ ~auth[c].final => auth[c].messages = 0

\* The third answer of a call was final, after two answers that were
\* pending or failures, while another call waits for its timer.
C39_Witness ==
  /\ auth[1].final
  /\ auth[1].fetches = 3
  /\ auth[1].pc = "stopped"
  /\ auth[2].pc = "timer"
====
